---- MODULE Spec2Model ----
(***************************************************************************)
(* FlowNote evaluation engine: the line classifier (parser.ts), the scope  *)
(* store (scope.ts), the builtin aggregates (functions.ts) and the         *)
(* document evaluator (evaluate.ts); around it the notes backend           *)
(* (firestore.ts), the sync hook useSync and the tab storage (local.ts).   *)
(*                                                                         *)
(* Text is modelled as TLA+ strings, read character by character with      *)
(* SubSeq; JavaScript values are tagged records; JavaScript objects live   *)
(* in a heap so that two variables can hold the same object.               *)
(***************************************************************************)
EXTENDS Integers, Sequences, FiniteSets, TLC

VARIABLES
    line,               \* parseLine: the argument of the call
    parsed,             \* parseLine: the record it returned
    heap,               \* every JavaScript object, by address
    scope,              \* the Scope of the running evaluation
    lastCall,           \* scope store: the last setVariable call and the state before it
    content,            \* evaluateDocument: the document text
    externalVariables,  \* evaluateDocument: the caller's extra variables
    parsedLines,        \* evaluateDocument: parseDocument(content)
    i,                  \* evaluateDocument: the loop index (0-based, as in the code)
    results,            \* evaluateDocument: the results pushed so far
    ans,                \* evaluateDocument: the last answer
    pc,                 \* which operation is running and where it stands
    before,             \* evaluateDocument: the state when the last line started
    history,            \* the documents evaluated earlier in this process, oldest first
    firestore,          \* notes backend: one user's profile document and note documents
    hook,               \* useSync: the state, the refs and the suspended calls of the hook
    localStorage        \* tab storage: the data under the key flownote_data

vars == <<line, parsed, heap, scope, lastCall, content, externalVariables,
          parsedLines, i, results, ans, pc, before, history, firestore, hook, localStorage>>

(***************************************************************************)
(* Strings                                                                 *)
(***************************************************************************)

\* s[k - 1] of JavaScript: the k-th character, 1-based
Ch(s, k) == SubSeq(s, k, k)

\* [a-zA-Z_]
IsIdentStart(c) ==
    c \in {"a","b","c","d","e","f","g","h","i","j","k","l","m","n","o","p","q",
           "r","s","t","u","v","w","x","y","z","A","B","C","D","E","F","G","H",
           "I","J","K","L","M","N","O","P","Q","R","S","T","U","V","W","X","Y",
           "Z","_"}

\* \d
IsDigit(c) == c \in {"0","1","2","3","4","5","6","7","8","9"}

\* [a-zA-Z0-9_]
IsIdentChar(c) == IsIdentStart(c) \/ IsDigit(c)

\* [a-zA-Z0-9_.]
IsPathChar(c) == IsIdentChar(c) \/ c = "."

\* \s, and the characters String.prototype.trim removes
IsSpace(c) == c \in {" ", "\t", "\r", "\n"}

\* [^)]
NotCloseParen(c) == c # ")"

\* . of a regular expression without the s flag
IsDotChar(c) == c \notin {"\n", "\r"}

\* whether c is of a character class of the patterns, by the name of the class
InClass(c, class) ==
    CASE class = "IsIdentChar" -> IsIdentChar(c)
      [] class = "IsPathChar" -> IsPathChar(c)
      [] class = "IsSpace" -> IsSpace(c)
      [] class = "IsDigit" -> IsDigit(c)
      [] class = "NotCloseParen" -> NotCloseParen(c)

\* the index of the last character of the longest run of characters of a
\* class that starts at k (k - 1 when s[k] is not of the class): a greedy *
SpanEnd(s, k, class) ==
    IF \E j \in k..Len(s) : ~InClass(Ch(s, j), class)
    THEN (CHOOSE j \in k..Len(s) :
              ~InClass(Ch(s, j), class) /\ \A m \in k..(j - 1) : InClass(Ch(s, m), class)) - 1
    ELSE Len(s)

\* String.prototype.indexOf for a one-character needle, 1-based (0: absent)
IndexOf(s, c) ==
    IF \E k \in 1..Len(s) : Ch(s, k) = c
    THEN CHOOSE k \in 1..Len(s) : Ch(s, k) = c /\ \A m \in 1..(k - 1) : Ch(s, m) # c
    ELSE 0

\* String.prototype.trim
Trim(s) ==
    IF \A k \in 1..Len(s) : IsSpace(Ch(s, k))
    THEN ""
    ELSE LET a == CHOOSE k \in 1..Len(s) :
                      ~IsSpace(Ch(s, k)) /\ \A m \in 1..(k - 1) : IsSpace(Ch(s, m))
             b == CHOOSE k \in 1..Len(s) :
                      ~IsSpace(Ch(s, k)) /\ \A m \in (k + 1)..Len(s) : IsSpace(Ch(s, m))
         IN  SubSeq(s, a, b)

\* String.prototype.startsWith
StartsWith(s, p) == Len(s) >= Len(p) /\ SubSeq(s, 1, Len(p)) = p

\* String.prototype.split for a one-character separator
RECURSIVE Split(_, _)
Split(s, sep) ==
    LET k == IndexOf(s, sep)
    IN  IF k = 0 THEN <<s>>
        ELSE <<SubSeq(s, 1, k - 1)>> \o Split(SubSeq(s, k + 1, Len(s)), sep)

\* seq.map((p) => p.trim()).filter((p) => p !== '')
RECURSIVE TrimAndDropEmpty(_)
TrimAndDropEmpty(seq) ==
    IF seq = <<>> THEN <<>>
    ELSE (IF Trim(Head(seq)) # "" THEN <<Trim(Head(seq))>> ELSE <<>>)
         \o TrimAndDropEmpty(Tail(seq))

(***************************************************************************)
(* parser.ts                                                               *)
(***************************************************************************)

\* trimmed.match(FUNCTION_DEF_PATTERN):
\*   /^([a-zA-Z_][a-zA-Z0-9_]*)\s*\(([^)]*)\)\s*=\s*(.+)$/
\* for a text that does not end in white space (parseLine passes a trimmed one)
MatchFunctionDef(t) ==
    LET n == SpanEnd(t, 2, "IsIdentChar")          \* end of the name
        p == SpanEnd(t, n + 1, "IsSpace") + 1      \* the (
        q == SpanEnd(t, p + 1, "NotCloseParen") + 1 \* the )
        r == SpanEnd(t, q + 1, "IsSpace") + 1      \* the =
        b == SpanEnd(t, r + 1, "IsSpace") + 1      \* the body's first character
        ok == /\ Len(t) >= 1 /\ IsIdentStart(Ch(t, 1))
              /\ p <= Len(t) /\ Ch(t, p) = "("
              /\ q <= Len(t) /\ Ch(t, q) = ")"
              /\ r <= Len(t) /\ Ch(t, r) = "="
              /\ b <= Len(t)
              /\ \A k \in b..Len(t) : IsDotChar(Ch(t, k))
    IN  IF ok
        THEN [ok |-> TRUE, funcName |-> SubSeq(t, 1, n),
              paramsStr |-> SubSeq(t, p + 1, q - 1), funcBody |-> SubSeq(t, b, Len(t))]
        ELSE [ok |-> FALSE]

\* trimmed.match(ASSIGNMENT_PATTERN):
\*   /^([a-zA-Z_][a-zA-Z0-9_.]*)\s*=\s*(.+)$/
MatchAssignment(t) ==
    LET n == SpanEnd(t, 2, "IsPathChar")           \* end of the name
        r == SpanEnd(t, n + 1, "IsSpace") + 1      \* the =
        b == SpanEnd(t, r + 1, "IsSpace") + 1      \* the expression's first character
        ok == /\ Len(t) >= 1 /\ IsIdentStart(Ch(t, 1))
              /\ r <= Len(t) /\ Ch(t, r) = "="
              /\ b <= Len(t)
              /\ \A k \in b..Len(t) : IsDotChar(Ch(t, k))
    IN  IF ok
        THEN [ok |-> TRUE, varName |-> SubSeq(t, 1, n), expression |-> SubSeq(t, b, Len(t))]
        ELSE [ok |-> FALSE]

\* /[a-zA-Z_][a-zA-Z0-9_]*\s*\(/.test(t): a ( that follows, after optional
\* white space, a run of identifier characters holding a letter or _
HasCallShape(t) ==
    \E a \in 1..Len(t) :
        /\ IsIdentStart(Ch(t, a))
        /\ LET n == SpanEnd(t, a + 1, "IsIdentChar")
               p == SpanEnd(t, n + 1, "IsSpace") + 1
           IN  p <= Len(t) /\ Ch(t, p) = "("

\* /^\s*-?\d+\.?\d*\s*$/.test(t)
IsNumberText(t) ==
    LET a == SpanEnd(t, 1, "IsSpace") + 1
        b == IF a <= Len(t) /\ Ch(t, a) = "-" THEN a + 1 ELSE a
        c == SpanEnd(t, b, "IsDigit")              \* end of \d+
        d == IF c + 1 <= Len(t) /\ Ch(t, c + 1) = "." THEN c + 1 ELSE c
        e == SpanEnd(t, d + 1, "IsDigit")          \* end of \d*
        f == SpanEnd(t, e + 1, "IsSpace")
    IN  c >= b /\ f = Len(t)

Contains(t, cs) == \E k \in 1..Len(t) : Ch(t, k) \in cs

ContainsPair(t, first, second) ==
    \E k \in 1..(Len(t) - 1) : Ch(t, k) \in first /\ Ch(t, k + 1) \in second

looksLikeExpression(t) ==
    \/ Contains(t, {"+", "-", "*", "/", "%", "^"})
    \/ HasCallShape(t)
    \/ Contains(t, {"<", ">"}) \/ ContainsPair(t, {"!", "="}, {"="})
    \/ Contains(t, {"="})
    \/ IsNumberText(t)
    \/ LET u == Trim(t)
       IN  Len(u) >= 1 /\ IsIdentStart(Ch(u, 1)) /\ \A k \in 2..Len(u) : IsPathChar(Ch(u, k))

\* parseLine, had it kept the trimmed text as raw
parseLine_RawTrimmed(l) ==
    LET trimmed == Trim(l)
        funcMatch == MatchFunctionDef(trimmed)
        assignmentMatch == MatchAssignment(trimmed)
        eqIndex == IndexOf(trimmed, "=")
    IN  IF trimmed = "" THEN [type |-> "text", raw |-> trimmed]
        ELSE IF StartsWith(trimmed, "#") \/ StartsWith(trimmed, "//")
        THEN [type |-> "comment", raw |-> trimmed]
        ELSE IF funcMatch.ok
        THEN [type |-> "function-def", raw |-> trimmed,
              funcName |-> funcMatch.funcName,
              funcParams |-> TrimAndDropEmpty(Split(funcMatch.paramsStr, ",")),
              funcBody |-> funcMatch.funcBody]
        ELSE IF /\ assignmentMatch.ok
                /\ eqIndex > 1
                /\ Ch(trimmed, eqIndex - 1) # "!"
                /\ Ch(trimmed, eqIndex - 1) # "="
                /\ ~(eqIndex + 1 <= Len(trimmed) /\ Ch(trimmed, eqIndex + 1) = "=")
        THEN [type |-> "expression", raw |-> trimmed,
              varName |-> assignmentMatch.varName,
              expression |-> assignmentMatch.expression]
        ELSE IF looksLikeExpression(trimmed)
        THEN [type |-> "expression", raw |-> trimmed, expression |-> trimmed]
        ELSE [type |-> "text", raw |-> trimmed]

\* the ParsedLine of a line; an absent field of the record is an absent key
parseLine(l) ==
    LET trimmed == Trim(l)
        funcMatch == MatchFunctionDef(trimmed)
        assignmentMatch == MatchAssignment(trimmed)
        eqIndex == IndexOf(trimmed, "=")
    IN  IF trimmed = "" THEN [type |-> "text", raw |-> l]
        ELSE IF StartsWith(trimmed, "#") \/ StartsWith(trimmed, "//")
        THEN [type |-> "comment", raw |-> l]
        ELSE IF funcMatch.ok
        THEN [type |-> "function-def", raw |-> l,
              funcName |-> funcMatch.funcName,
              funcParams |-> TrimAndDropEmpty(Split(funcMatch.paramsStr, ",")),
              funcBody |-> funcMatch.funcBody]
        ELSE IF /\ assignmentMatch.ok
                /\ eqIndex > 1
                /\ Ch(trimmed, eqIndex - 1) # "!"
                /\ Ch(trimmed, eqIndex - 1) # "="
                /\ ~(eqIndex + 1 <= Len(trimmed) /\ Ch(trimmed, eqIndex + 1) = "=")
        THEN [type |-> "expression", raw |-> l,
              varName |-> assignmentMatch.varName,
              expression |-> assignmentMatch.expression]
        ELSE IF looksLikeExpression(trimmed)
        THEN [type |-> "expression", raw |-> l, expression |-> trimmed]
        ELSE [type |-> "text", raw |-> l]

\* parseDocument, had it left the blank lines out
parseDocument_DropsBlankLines(c) ==
    LET lines == SelectSeq(Split(c, "\n"), LAMBDA l : Trim(l) # "")
    IN  [k \in 1..Len(lines) |-> parseLine(lines[k])]

\* content.split('\n').map(parseLine)
parseDocument(c) ==
    LET lines == Split(c, "\n")
    IN  [k \in 1..Len(lines) |-> parseLine(lines[k])]

(***************************************************************************)
(* JavaScript values and objects                                           *)
(*                                                                         *)
(* A number is a fraction <<n, d>> in lowest terms with d > 0; <<1, 0>> is *)
(* Infinity, <<-1, 0>> is -Infinity and <<0, 0>> is NaN.  An object value  *)
(* is the address of an object of the heap.  A heap object has its own     *)
(* properties and its prototype (0: none).                                 *)
(***************************************************************************)

Undefined == [t |-> "undefined"]
Null == [t |-> "null"]
Bool(b) == [t |-> "boolean", b |-> b]
Str(s) == [t |-> "string", s |-> s]
Obj(a) == [t |-> "object", addr |-> a]

RECURSIVE Gcd(_, _)
Gcd(a, b) == IF b = 0 THEN a ELSE Gcd(b, a % b)

Abs(n) == IF n < 0 THEN -n ELSE n

Sign(n) == IF n < 0 THEN -1 ELSE IF n > 0 THEN 1 ELSE 0

\* the number n / d
Frac(n, d) ==
    IF d = 0 THEN [t |-> "number", v |-> <<Sign(n), 0>>]
    ELSE LET g == Gcd(Abs(n), Abs(d))
         IN  [t |-> "number", v |-> <<(Sign(d) * n) \div g, Abs(d) \div g>>]

Num(n) == Frac(n, 1)
NaN == Frac(0, 0)
Infinity == Frac(1, 0)

\* typeof v
TypeOf(v) == IF v.t = "null" THEN "object" ELSE v.t

\* the address of Object.prototype, the prototype of every object literal
ObjectPrototype == 1

\* a new {}
EmptyObject == [proto |-> ObjectPrototype, props |-> <<>>]

\* the heap before any scope exists: Object.prototype alone.  Its builtin
\* members are functions and not enumerable; they are left out.
HostHeap == <<[proto |-> 0, props |-> <<>>]>>

\* whether the prototype chain of object a holds object b (a itself included)
RECURSIVE InChain(_, _, _)
InChain(h, a, b) ==
    IF a = 0 THEN FALSE
    ELSE IF a = b THEN TRUE
    ELSE InChain(h, h[a].proto, b)

\* the value of an inherited or own data property, along the prototype chain
RECURSIVE Lookup(_, _, _)
Lookup(h, a, key) ==
    IF a = 0 THEN Undefined
    ELSE IF key \in DOMAIN h[a].props THEN h[a].props[key]
    ELSE Lookup(h, h[a].proto, key)

\* whether object a has its own or an inherited data property key
RECURSIVE HasProperty(_, _, _)
HasProperty(h, a, key) ==
    IF a = 0 THEN FALSE
    ELSE IF key \in DOMAIN h[a].props THEN TRUE
    ELSE HasProperty(h, h[a].proto, key)

\* obj[key] for the object at address a.  __proto__ is an accessor of
\* Object.prototype: unless a data property of that name is found first, an
\* object that inherits from Object.prototype reads its own prototype.
GetProp(h, a, key) ==
    IF key = "__proto__" /\ ~HasProperty(h, a, key) /\ InChain(h, a, ObjectPrototype)
    THEN (IF h[a].proto = 0 THEN Null ELSE Obj(h[a].proto))
    ELSE Lookup(h, a, key)

\* obj[key] = v for the object at address a: the heap afterwards, and whether
\* the assignment threw.  The __proto__ setter ignores a value that is neither
\* an object nor null, refuses a cycle and refuses to change Object.prototype.
SetProp(h, a, key, v) ==
    IF key = "__proto__" /\ ~HasProperty(h, a, key) /\ InChain(h, a, ObjectPrototype)
    THEN IF v.t \notin {"object", "null"}
         THEN [heap |-> h, threw |-> FALSE]
         ELSE LET target == IF v.t = "null" THEN 0 ELSE v.addr
              IN  IF target = h[a].proto THEN [heap |-> h, threw |-> FALSE]
                  ELSE IF a = ObjectPrototype \/ InChain(h, target, a)
                  THEN [heap |-> h, threw |-> TRUE]
                  ELSE [heap |-> [h EXCEPT ![a].proto = target], threw |-> FALSE]
    ELSE [heap |-> [h EXCEPT ![a].props = (key :> v) @@ @], threw |-> FALSE]

(***************************************************************************)
(* scope.ts                                                                *)
(***************************************************************************)

\* createScope: the heap with a new variables object, and the Scope
createScope(h) ==
    [heap |-> Append(h, EmptyObject),
     scope |-> [variables |-> Len(h) + 1, functions |-> <<>>]]

\* current[part] === undefined || typeof current[part] !== 'object' || current[part] === null
IsNotMapping(v) == v.t = "undefined" \/ TypeOf(v) # "object" \/ v.t = "null"

\* the loop of setVariable and its last assignment, from the object at
\* address current on
RECURSIVE SetPath(_, _, _, _)
SetPath(h, current, parts, value) ==
    IF Len(parts) = 1 THEN SetProp(h, current, parts[1], value)
    ELSE LET part == Head(parts)
             made == IF IsNotMapping(GetProp(h, current, part))
                     THEN SetProp(Append(h, EmptyObject), current, part, Obj(Len(h) + 1))
                     ELSE [heap |-> h, threw |-> FALSE]
             next == GetProp(made.heap, current, part)
         IN  IF made.threw THEN [heap |-> h, threw |-> TRUE]
             ELSE SetPath(made.heap, next.addr, Tail(parts), value)

\* setVariable(scope, path, value): the heap afterwards, and whether it threw
setVariable(h, sc, path, value) ==
    LET parts == Split(path, ".")
    IN  IF Len(parts) = 1 THEN SetProp(h, sc.variables, path, value)
        ELSE SetPath(h, sc.variables, parts, value)

\* the loop of getVariable, from the value current on
RECURSIVE GetPath(_, _, _)
GetPath(h, current, parts) ==
    IF parts = <<>> THEN current
    ELSE IF current.t = "undefined" \/ current.t = "null" \/ TypeOf(current) # "object"
    THEN Undefined
    ELSE GetPath(h, GetProp(h, current.addr, Head(parts)), Tail(parts))

\* getVariable(scope, path)
getVariable(h, sc, path) == GetPath(h, Obj(sc.variables), Split(path, "."))

\* scope.functions[name] = { params, body }; functions is an object literal
\* too, and the name __proto__ creates no property of it
defineFunction(sc, name, params, body) ==
    IF name = "__proto__" THEN sc
    ELSE [sc EXCEPT !.functions = (name :> [params |-> params, body |-> body]) @@ @]

\* { ...scope.variables }: the own properties of the variables object
getTopLevelVariables(h, sc) == h[sc.variables].props

(***************************************************************************)
(* The expression language: the part of JavaScript that `new Function`     *)
(* compiles in safeEval, cut down to literals, names, member access,       *)
(* calls, unary and binary arithmetic, comparisons and assignment to a     *)
(* member.  A text outside that part is reported as "unsupported", never   *)
(* as a value or an error.                                                 *)
(***************************************************************************)

DigitValue(c) ==
    CASE c = "0" -> 0 [] c = "1" -> 1 [] c = "2" -> 2 [] c = "3" -> 3 [] c = "4" -> 4
      [] c = "5" -> 5 [] c = "6" -> 6 [] c = "7" -> 7 [] c = "8" -> 8 [] c = "9" -> 9

\* the integer a string of digits denotes ("" denotes 0)
RECURSIVE DigitsValue(_)
DigitsValue(d) ==
    IF d = "" THEN 0
    ELSE 10 * DigitsValue(SubSeq(d, 1, Len(d) - 1)) + DigitValue(Ch(d, Len(d)))

RECURSIVE Pow10(_)
Pow10(n) == IF n = 0 THEN 1 ELSE 10 * Pow10(n - 1)

\* the operators and punctuation of more than one character, longest first
Punct3 == {"===", "!=="}
Punct2 == {"==", "!=", "<=", ">=", "&&", "||", "**", "=>", "++", "--", "+=", "-="}

\* the tokens of a program text from position k on.  A // comment runs to
\* the end of the text.
RECURSIVE Tokenize(_, _)
Tokenize(s, k) ==
    IF k > Len(s) THEN <<>>
    ELSE LET c == Ch(s, k)
         IN  IF IsSpace(c) THEN Tokenize(s, k + 1)
             ELSE IF IsDigit(c) \/ (c = "." /\ k < Len(s) /\ IsDigit(Ch(s, k + 1)))
             THEN LET a == SpanEnd(s, k, "IsDigit")        \* end of the integer part
                      b == IF a + 1 <= Len(s) /\ Ch(s, a + 1) = "."
                           THEN SpanEnd(s, a + 2, "IsDigit")
                           ELSE a                        \* end of the literal
                      fraction == IF b > a THEN SubSeq(s, a + 2, b) ELSE ""
                  IN  IF b + 1 <= Len(s) /\ IsIdentStart(Ch(s, b + 1))
                      THEN <<[k |-> "invalid"]>>
                      ELSE IF a > k /\ c = "0"
                      THEN <<[k |-> "other"]>>
                      ELSE <<[k |-> "num",
                              v |-> Frac(DigitsValue(SubSeq(s, k, a) \o fraction),
                                         Pow10(Len(fraction)))]>>
                           \o Tokenize(s, b + 1)
             ELSE IF IsIdentStart(c)
             THEN LET n == SpanEnd(s, k + 1, "IsIdentChar")
                  IN  <<[k |-> "id", s |-> SubSeq(s, k, n)]>> \o Tokenize(s, n + 1)
             ELSE IF k + 1 <= Len(s) /\ SubSeq(s, k, k + 1) = "//" THEN <<>>
             ELSE IF k + 2 <= Len(s) /\ SubSeq(s, k, k + 2) \in Punct3
             THEN <<[k |-> "p", s |-> SubSeq(s, k, k + 2)]>> \o Tokenize(s, k + 3)
             ELSE IF k + 1 <= Len(s) /\ SubSeq(s, k, k + 1) \in Punct2
             THEN <<[k |-> "p", s |-> SubSeq(s, k, k + 1)]>> \o Tokenize(s, k + 2)
             ELSE IF c \in {"+", "-", "*", "/", "%", "(", ")", ",", ".", "<", ">", "!", "="}
             THEN <<[k |-> "p", s |-> c]>> \o Tokenize(s, k + 1)
             ELSE <<[k |-> "other"]>>

\* the words that are no identifiers in strict code, eval and arguments (no
\* parameter names in strict code) included
ReservedWords ==
    {"break", "case", "catch", "class", "const", "continue", "debugger", "default",
     "delete", "do", "else", "enum", "export", "extends", "false", "finally", "for",
     "function", "if", "import", "in", "instanceof", "new", "null", "return", "super",
     "switch", "this", "throw", "true", "try", "typeof", "var", "void", "while", "with",
     "implements", "interface", "let", "package", "private", "protected", "public",
     "static", "yield", "eval", "arguments"}

\* the reserved words that can begin an expression the model does not cover
ExpressionWords ==
    {"this", "new", "typeof", "void", "delete", "function", "class", "super", "import",
     "yield", "let", "eval", "arguments"}

IsPunct(toks, p, set) == p <= Len(toks) /\ toks[p].k = "p" /\ toks[p].s \in set

Failed(kind) == [st |-> kind]

RECURSIVE ParseAssignment(_, _), ParseUnary(_, _), ParseArguments(_, _, _),
          PostfixLoop(_, _), BinaryLoop(_, _, _), ParseLevel(_, _, _)

\* what follows a parenthesised expression e: the closing parenthesis
CloseParen(toks, e) ==
    IF e.st # "ok" THEN e
    ELSE IF IsPunct(toks, e.pos, {")"}) THEN [e EXCEPT !.pos = e.pos + 1]
    ELSE IF e.pos > Len(toks) THEN Failed("syntax")
    ELSE IF toks[e.pos].k \in {"num", "id", "invalid"} THEN Failed("syntax")
    ELSE IF IsPunct(toks, e.pos, {".", ")"}) THEN Failed("syntax")
    ELSE Failed("unsupported")

\* Primary: a literal, a name or a parenthesised expression at position p
ParsePrimary(toks, p) ==
    IF p > Len(toks) THEN Failed("syntax")
    ELSE LET tk == toks[p]
         IN  CASE tk.k = "num" -> [st |-> "ok", node |-> [k |-> "lit", v |-> tk.v], pos |-> p + 1]
               [] tk.k = "id" ->
                    IF tk.s = "true" THEN [st |-> "ok", node |-> [k |-> "lit", v |-> Bool(TRUE)], pos |-> p + 1]
                    ELSE IF tk.s = "false" THEN [st |-> "ok", node |-> [k |-> "lit", v |-> Bool(FALSE)], pos |-> p + 1]
                    ELSE IF tk.s = "null" THEN [st |-> "ok", node |-> [k |-> "lit", v |-> Null], pos |-> p + 1]
                    ELSE IF tk.s \in ExpressionWords THEN Failed("unsupported")
                    ELSE IF tk.s \in ReservedWords THEN Failed("syntax")
                    ELSE [st |-> "ok", node |-> [k |-> "id", name |-> tk.s], pos |-> p + 1]
               [] tk.k = "p" /\ tk.s = "(" -> CloseParen(toks, ParseAssignment(toks, p + 1))
               [] tk.k = "p" /\ tk.s = "/" -> Failed("unsupported")
               [] tk.k = "p" /\ tk.s \in {"++", "--"} -> Failed("unsupported")
               [] tk.k = "p" -> Failed("syntax")
               [] tk.k = "invalid" -> Failed("syntax")
               [] OTHER -> Failed("unsupported")

\* what follows the argument e of a call, after the arguments in acc
ArgumentsNext(toks, e, acc) ==
    IF e.st # "ok" THEN e
    ELSE IF IsPunct(toks, e.pos, {","})
    THEN ParseArguments(toks, e.pos + 1, Append(acc, e.node))
    ELSE IF IsPunct(toks, e.pos, {")"})
    THEN [st |-> "ok", args |-> Append(acc, e.node), pos |-> e.pos + 1]
    ELSE IF e.pos > Len(toks) THEN Failed("syntax")
    ELSE IF toks[e.pos].k \in {"num", "id", "invalid"} THEN Failed("syntax")
    ELSE Failed("unsupported")

\* the arguments of a call from position p on, after the ones in acc
ParseArguments(toks, p, acc) ==
    IF IsPunct(toks, p, {")"}) THEN [st |-> "ok", args |-> acc, pos |-> p + 1]
    ELSE ArgumentsNext(toks, ParseAssignment(toks, p), acc)

\* the call of the expression e with the arguments a
CallOf(toks, e, a) ==
    IF a.st # "ok" THEN a
    ELSE PostfixLoop(toks, [st |-> "ok",
                            node |-> [k |-> "call", fn |-> e.node, args |-> a.args],
                            pos |-> a.pos])

\* .name and (arguments) after the expression e
PostfixLoop(toks, e) ==
    IF e.st # "ok" THEN e
    ELSE IF IsPunct(toks, e.pos, {"."})
    THEN IF e.pos + 1 <= Len(toks) /\ toks[e.pos + 1].k = "id"
         THEN PostfixLoop(toks, [st |-> "ok",
                                 node |-> [k |-> "member", obj |-> e.node,
                                           prop |-> toks[e.pos + 1].s],
                                 pos |-> e.pos + 2])
         ELSE Failed("syntax")
    ELSE IF IsPunct(toks, e.pos, {"("})
    THEN CallOf(toks, e, ParseArguments(toks, e.pos + 1, <<>>))
    ELSE e

ParsePostfix(toks, p) == PostfixLoop(toks, ParsePrimary(toks, p))

\* the unary operator op applied to the expression e
UnaryOf(op, e) ==
    IF e.st # "ok" THEN e
    ELSE [e EXCEPT !.node = [k |-> "unary", op |-> op, arg |-> e.node]]

ParseUnary(toks, p) ==
    IF IsPunct(toks, p, {"-", "+", "!"})
    THEN UnaryOf(toks[p].s, ParseUnary(toks, p + 1))
    ELSE ParsePostfix(toks, p)

\* the four left-associative levels of binary operators, tightest first
BinaryOps(level) ==
    CASE level = 1 -> {"*", "/", "%"}
      [] level = 2 -> {"+", "-"}
      [] level = 3 -> {"<", ">", "<=", ">="}
      [] level = 4 -> {"==", "!=", "===", "!=="}

\* the operation op of a level on the expression e and the operand r
BinaryOf(toks, op, e, r, level) ==
    IF r.st # "ok" THEN r
    ELSE BinaryLoop(toks, [st |-> "ok",
                           node |-> [k |-> "binary", op |-> op,
                                     left |-> e.node, right |-> r.node],
                           pos |-> r.pos], level)

\* operator operand pairs of a level after the expression e
BinaryLoop(toks, e, level) ==
    IF e.st # "ok" THEN e
    ELSE IF IsPunct(toks, e.pos, BinaryOps(level))
    THEN BinaryOf(toks, toks[e.pos].s, e, ParseLevel(toks, e.pos + 1, level - 1), level)
    ELSE e

\* an expression of the operators up to a level: level 0 is Unary, 1
\* Multiplicative, 2 Additive, 3 Relational, 4 Equality
ParseLevel(toks, p, level) ==
    IF level = 0 THEN ParseUnary(toks, p)
    ELSE BinaryLoop(toks, ParseLevel(toks, p, level - 1), level)

ParseEquality(toks, p) == ParseLevel(toks, p, 4)

\* the assignment of the value r to the target e
AssignmentOf(e, r) ==
    IF r.st # "ok" THEN r
    ELSE [st |-> "ok",
          node |-> [k |-> "assign", target |-> e.node, value |-> r.node],
          pos |-> r.pos]

\* what follows the expression e: nothing of it, or = and a value.  Only a
\* member is taken as target; anything but a name, a member or a call
\* before the = is an early error.
AssignmentTail(toks, e) ==
    IF e.st # "ok" THEN e
    ELSE IF ~IsPunct(toks, e.pos, {"="}) THEN e
    ELSE IF e.node.k \in {"id", "call"} THEN Failed("unsupported")
    ELSE IF e.node.k # "member" THEN Failed("syntax")
    ELSE AssignmentOf(e, ParseAssignment(toks, e.pos + 1))

\* target = value, right-associative and below every binary operator
ParseAssignment(toks, p) == AssignmentTail(toks, ParseEquality(toks, p))

\* what follows the whole operand e: nothing
EndOfOperand(toks, e) ==
    IF e.st # "ok" THEN e
    ELSE IF e.pos = Len(toks) + 1 THEN e
    ELSE IF toks[e.pos].k \in {"num", "id", "invalid"} THEN Failed("syntax")
    ELSE IF IsPunct(toks, e.pos, {".", ")", "=>"}) THEN Failed("syntax")
    ELSE Failed("unsupported")

\* the tokens of `(${expression})`
OperandTokens(expression) == Tokenize("(" \o expression \o ")", 1)

\* the syntax tree of `(${expression})`, the operand of the return statement
\* that safeEval compiles
ParseReturnOperand(expression) ==
    EndOfOperand(OperandTokens(expression), ParseAssignment(OperandTokens(expression), 1))

(***************************************************************************)
(* Numbers                                                                 *)
(***************************************************************************)

\* a number held as a fraction (pi, e, phi and tau are held by name)
IsFrac(v) == v.t = "number" /\ "v" \in DOMAIN v

IsNaN(v) == v = NaN

\* ToNumber of a value that is no string: an object or a function gives NaN
ToNumber(v) ==
    CASE v.t = "number" -> v
      [] v.t = "null" -> Num(0)
      [] v.t = "boolean" -> IF v.b THEN Num(1) ELSE Num(0)
      [] OTHER -> NaN

NumNeg(a) == Frac(-a.v[1], a.v[2])

NumAdd(a, b) ==
    IF a.v[2] = 0 /\ b.v[2] = 0
    THEN (IF a = b THEN a ELSE NaN)
    ELSE Frac(a.v[1] * b.v[2] + b.v[1] * a.v[2], a.v[2] * b.v[2])

NumMul(a, b) == Frac(a.v[1] * b.v[1], a.v[2] * b.v[2])

NumDiv(a, b) ==
    IF IsNaN(a) \/ IsNaN(b) THEN NaN
    ELSE Frac(a.v[1] * b.v[2], a.v[2] * b.v[1])

\* a < b
NumLess(a, b) ==
    IF IsNaN(a) \/ IsNaN(b) THEN FALSE
    ELSE IF a.v[2] = 0 /\ b.v[2] = 0 THEN a.v[1] < b.v[1]
    ELSE a.v[1] * b.v[2] < b.v[1] * a.v[2]

NumEq(a, b) == ~IsNaN(a) /\ a = b

(***************************************************************************)
(* functions.ts                                                            *)
(***************************************************************************)

\* how deep the host lets calls nest before it throws a RangeError
MaxCallDepth == 3

\* flattenValues(args): the numbers pushed, in some order of the objects'
\* own properties; ok is FALSE when the recursion exceeds the host's stack
\* (an object that contains itself)
RECURSIVE flattenValues(_, _, _), FlattenObject(_, _, _, _)
flattenValues(args, h, fuel) ==
    IF args = <<>> THEN [ok |-> TRUE, values |-> <<>>]
    ELSE LET arg == Head(args)
             rest == flattenValues(Tail(args), h, fuel)
             mine == IF arg.t = "number" /\ ~IsNaN(arg) THEN [ok |-> TRUE, values |-> <<arg>>]
                     ELSE IF TypeOf(arg) = "object" /\ arg.t # "null"
                     THEN (IF fuel = 0 THEN [ok |-> FALSE, values |-> <<>>]
                           ELSE FlattenObject(h, arg.addr, DOMAIN h[arg.addr].props, fuel - 1))
                     ELSE [ok |-> TRUE, values |-> <<>>]
         IN  [ok |-> mine.ok /\ rest.ok, values |-> mine.values \o rest.values]

\* flattenValues(Object.values(arg)) for the properties keys of the object at a
FlattenObject(h, a, keys, fuel) ==
    IF keys = {} THEN [ok |-> TRUE, values |-> <<>>]
    ELSE LET key == CHOOSE k \in keys : TRUE
             mine == flattenValues(<<h[a].props[key]>>, h, fuel)
             rest == FlattenObject(h, a, keys \ {key}, fuel)
         IN  [ok |-> mine.ok /\ rest.ok, values |-> mine.values \o rest.values]

\* values.reduce((acc, val) => acc + val, 0)
RECURSIVE SumOf(_)
SumOf(values) ==
    IF values = <<>> THEN Num(0) ELSE NumAdd(SumOf(SubSeq(values, 1, Len(values) - 1)),
                                             values[Len(values)])

\* Math.min(...values) and Math.max(...values) of a non-empty list
MinOf(values) ==
    values[CHOOSE k \in 1..Len(values) : \A m \in 1..Len(values) : ~NumLess(values[m], values[k])]

MaxOf(values) ==
    values[CHOOSE k \in 1..Len(values) : \A m \in 1..Len(values) : ~NumLess(values[k], values[m])]

sum(values) == SumOf(values)

avg(values) == IF Len(values) > 0 THEN NumDiv(sum(values), Num(Len(values))) ELSE Num(0)

min(values) == IF Len(values) = 0 THEN Infinity ELSE MinOf(values)

max(values) == IF Len(values) = 0 THEN NumNeg(Infinity) ELSE MaxOf(values)

builtinFunctions == {"sum", "avg", "min", "max"}

(***************************************************************************)
(* evaluate.ts: safeEval                                                   *)
(***************************************************************************)

\* a value returned
Ok(v) == [ok |-> TRUE, v |-> v]

\* a thrown Error, by its message
Throw(message) == [ok |-> FALSE, error |-> message]

\* the answer for a program the model does not cover
OutsideModel == [ok |-> FALSE, error |-> "(outside the modelled language)"]

\* an outcome together with the heap it leaves
At(outcome, h) == [heap |-> h] @@ outcome

\* the names a function body resolves outside its parameters: the properties
\* of the global object (a few of them)
HostGlobals ==
    [name \in {"undefined", "NaN", "Infinity"} |->
        CASE name = "undefined" -> Undefined
          [] name = "NaN" -> NaN
          [] name = "Infinity" -> Infinity]

\* constructor functions of the global object, which the compiled function
\* reaches by name as well
HostConstructors == {"Object", "Date", "Number", "String", "Array", "Function"}

\* members the builtin prototypes give every value; the model leaves them out
BuiltinMembers ==
    {"constructor", "toString", "valueOf", "hasOwnProperty", "length", "name",
     "toFixed", "call", "apply", "bind", "isPrototypeOf", "toLocaleString",
     "propertyIsEnumerable"}

\* a parameter name `new Function` accepts in strict code
IsParameterName(key) ==
    /\ Len(key) >= 1
    /\ IsIdentStart(Ch(key, 1))
    /\ \A k \in 2..Len(key) : IsIdentChar(Ch(key, k))
    /\ key \notin ReservedWords

ToBoolean(v) ==
    CASE v.t = "undefined" -> FALSE
      [] v.t = "null" -> FALSE
      [] v.t = "boolean" -> v.b
      [] v.t = "number" -> ~(v = NaN \/ v = Num(0))
      [] v.t = "string" -> v.s # ""
      [] OTHER -> TRUE

IsNumeric(v) == IsFrac(v) \/ v.t \in {"undefined", "null", "boolean"}

\* a binary operator applied to two values
ApplyBinary(op, a, b) ==
    CASE op \in {"-", "*", "/"} /\ (IsNumeric(a) \/ a.t \in {"object", "function"})
                                /\ (IsNumeric(b) \/ b.t \in {"object", "function"}) ->
            Ok(CASE op = "-" -> NumAdd(ToNumber(a), NumNeg(ToNumber(b)))
                 [] op = "*" -> NumMul(ToNumber(a), ToNumber(b))
                 [] op = "/" -> NumDiv(ToNumber(a), ToNumber(b)))
      [] op = "+" /\ IsNumeric(a) /\ IsNumeric(b) -> Ok(NumAdd(ToNumber(a), ToNumber(b)))
      [] op \in {"<", ">", "<=", ">="} /\ IsNumeric(a) /\ IsNumeric(b) ->
            LET x == ToNumber(a)
                y == ToNumber(b)
            IN  Ok(Bool(CASE op = "<" -> NumLess(x, y)
                          [] op = ">" -> NumLess(y, x)
                          [] op = "<=" -> NumLess(x, y) \/ NumEq(x, y)
                          [] op = ">=" -> NumLess(y, x) \/ NumEq(x, y)))
      [] op \in {"===", "!=="} /\ a.t # "function" /\ b.t # "function"
                               /\ (a.t = "number" => IsFrac(a)) /\ (b.t = "number" => IsFrac(b)) ->
            LET same == IF a.t = "number" /\ b.t = "number" THEN NumEq(a, b) ELSE a = b
            IN  Ok(Bool(IF op = "===" THEN same ELSE ~same))
      [] op \in {"==", "!="} /\ (IsNumeric(a) \/ a.t = "object") /\ (IsNumeric(b) \/ b.t = "object")
                             /\ (a.t = "object" <=> b.t = "object") ->
            LET same == IF a.t \in {"undefined", "null"} \/ b.t \in {"undefined", "null"}
                        THEN a.t \in {"undefined", "null"} /\ b.t \in {"undefined", "null"}
                        ELSE IF a.t = "object" THEN a = b
                        ELSE NumEq(ToNumber(a), ToNumber(b))
            IN  Ok(Bool(IF op = "==" THEN same ELSE ~same))
      [] OTHER -> OutsideModel

\* a call of one of the host functions of the context
HostCall(name, args, h) ==
    IF name \in builtinFunctions
    THEN LET flat == flattenValues(args, h, MaxCallDepth)
             values == flat.values
         IN  IF ~flat.ok THEN Throw("Maximum call stack size exceeded")
             ELSE IF \E k \in 1..Len(values) : ~IsFrac(values[k]) THEN OutsideModel
             ELSE Ok(CASE name = "sum" -> sum(values)
                       [] name = "avg" -> avg(values)
                       [] name = "min" -> min(values)
                       [] name = "max" -> max(values))
    ELSE IF name = "abs" /\ Len(args) = 1 /\ IsFrac(args[1])
    THEN Ok(Frac(Abs(args[1].v[1]), args[1].v[2]))
    ELSE IF name = "floor" /\ Len(args) = 1 /\ IsFrac(args[1]) /\ args[1].v[2] # 0
    THEN Ok(Num(args[1].v[1] \div args[1].v[2]))
    ELSE OutsideModel

\* the names buildEvalContext takes from mathjs
mathjsFunctions ==
    {"abs", "acos", "acosh", "asin", "asinh", "atan", "atan2", "atanh",
     "cbrt", "ceil", "cos", "cosh", "exp", "floor", "log", "log10", "log2",
     "pow", "round", "sign", "sin", "sinh", "sqrt", "tan", "tanh", "trunc",
     "random", "factorial", "gcd", "lcm", "mod", "nthRoot",
     "pi", "e", "phi", "tau"}

\* mathjs[fn]: a function, or one of the four constants
MathjsValue(fn) ==
    IF fn \in {"pi", "e", "phi", "tau"} THEN [t |-> "number", sym |-> fn]
    ELSE [t |-> "function", host |-> fn]

\* Object.assign(target, source) for property maps: a source property named
\* __proto__ goes to the setter of the target and makes no property
ObjectAssign(target, source) ==
    [key \in DOMAIN source \ {"__proto__"} |-> source[key]] @@ target

\* the caller's extra variables, merged below the document's own
ExternalBindings(context, ext) == ObjectAssign(context, ext)

\* the context of buildEvalContext for the top-level variables userVars, the
\* functions fns and the last answer lastAns.  The wrapper of a user function
\* keeps what it closes over: the function and the parts of this context.
BuildContext(userVars, fns, lastAns, ext) ==
    LET math == [fn \in mathjsFunctions |-> MathjsValue(fn)]
        builtins == [fn \in builtinFunctions |-> [t |-> "function", host |-> fn]]
        withVars == ObjectAssign(ExternalBindings(ObjectAssign(math, builtins), ext), userVars)
        withAns == [key \in {"ans", "_"} |-> lastAns] @@ withVars
        wrappers == [name \in DOMAIN fns |->
                        [t |-> "function", user |-> name,
                         params |-> fns[name].params, body |-> fns[name].body,
                         userVars |-> userVars, fns |-> fns, ans |-> lastAns, ext |-> ext]]
    IN  wrappers @@ withAns

buildEvalContext(h, sc, lastAns, ext) ==
    BuildContext(getTopLevelVariables(h, sc), sc.functions, lastAns, ext)

RECURSIVE Eval(_, _, _, _), EvalArguments(_, _, _, _), CallFunction(_, _, _, _),
          safeEvalAt(_, _, _, _), RunCompiled(_, _, _, _)

\* the value of a syntax tree in a context, or what it throws, and the heap
\* afterwards
Eval(node, context, h, depth) ==
    CASE node.k = "lit" -> At(Ok(node.v), h)
      [] node.k = "id" ->
            IF node.name \in DOMAIN context THEN At(Ok(context[node.name]), h)
            ELSE IF node.name \in DOMAIN HostGlobals THEN At(Ok(HostGlobals[node.name]), h)
            ELSE IF node.name \in HostConstructors
            THEN At(Ok([t |-> "function", host |-> node.name]), h)
            ELSE IF node.name \in {"Math", "globalThis", "window", "JSON"}
            THEN At(OutsideModel, h)
            ELSE At(Throw(node.name \o " is not defined"), h)
      [] node.k = "member" ->
            LET o == Eval(node.obj, context, h, depth)
            IN  IF ~o.ok THEN o
                ELSE IF o.v.t \in {"undefined", "null"}
                THEN At(Throw("Cannot read properties of " \o o.v.t), o.heap)
                ELSE IF o.v.t = "object"
                THEN (IF node.prop \in BuiltinMembers /\ ~HasProperty(o.heap, o.v.addr, node.prop)
                      THEN At(OutsideModel, o.heap)
                      ELSE At(Ok(GetProp(o.heap, o.v.addr, node.prop)), o.heap))
                ELSE IF node.prop \in BuiltinMembers \/ node.prop = "__proto__"
                        \/ o.v.t \in {"string", "function"}
                THEN At(OutsideModel, o.heap)
                ELSE At(Ok(Undefined), o.heap)
      [] node.k = "unary" ->
            LET a == Eval(node.arg, context, h, depth)
            IN  IF ~a.ok THEN a
                ELSE IF node.op = "!" THEN At(Ok(Bool(~ToBoolean(a.v))), a.heap)
                ELSE IF ~(IsNumeric(a.v) \/ a.v.t \in {"object", "function"})
                THEN At(OutsideModel, a.heap)
                ELSE IF node.op = "-" THEN At(Ok(NumNeg(ToNumber(a.v))), a.heap)
                ELSE At(Ok(ToNumber(a.v)), a.heap)
      [] node.k = "binary" ->
            LET a == Eval(node.left, context, h, depth)
                b == Eval(node.right, context, a.heap, depth)
            IN  IF ~a.ok THEN a
                ELSE IF ~b.ok THEN b
                ELSE At(ApplyBinary(node.op, a.v, b.v), b.heap)
      [] node.k = "call" ->
            LET f == Eval(node.fn, context, h, depth)
                args == EvalArguments(node.args, context, f.heap, depth)
            IN  IF ~f.ok THEN f
                ELSE IF ~args.ok THEN args
                ELSE IF f.v.t # "function" THEN At(Throw("is not a function"), args.heap)
                ELSE CallFunction(f.v, args.v, args.heap, depth)
      [] node.k = "assign" ->
            LET o == Eval(node.target.obj, context, h, depth)
                value == Eval(node.value, context, o.heap, depth)
                put == SetProp(value.heap, o.v.addr, node.target.prop, value.v)
            IN  IF ~o.ok THEN o
                ELSE IF o.v.t \in {"undefined", "null"}
                THEN At(Throw("Cannot set properties of " \o o.v.t), o.heap)
                ELSE IF ~value.ok THEN value
                ELSE IF o.v.t = "function" THEN At(OutsideModel, value.heap)
                ELSE IF o.v.t # "object"
                THEN At(Throw("Cannot create property on a primitive"), value.heap)
                ELSE IF put.threw THEN At(Throw("Cyclic __proto__ value"), put.heap)
                ELSE At(Ok(value.v), put.heap)

\* fn(...values) for the outcome tree of compiling the function
RunCompiled(tree, context, h, depth) ==
    CASE tree.st = "syntax" -> At(Throw("Unexpected token"), h)
      [] tree.st = "unsupported" -> At(OutsideModel, h)
      [] OTHER -> Eval(tree.node, context, h, depth)

\* the values of the arguments of a call, left to right
EvalArguments(nodes, context, h, depth) ==
    IF nodes = <<>> THEN At(Ok(<<>>), h)
    ELSE LET first == Eval(Head(nodes), context, h, depth)
             rest == EvalArguments(Tail(nodes), context, first.heap, depth)
         IN  IF ~first.ok THEN first
             ELSE IF ~rest.ok THEN rest
             ELSE At(Ok(<<first.v>> \o rest.v), rest.heap)

\* the parameters of a call bound to its arguments: a parameter without
\* argument is undefined, the last of two parameters of one name wins, and
\* localContext['__proto__'] = value makes no key
BindParameters(params, args) ==
    [param \in {params[k] : k \in 1..Len(params)} \ {"__proto__"} |->
        LET last == CHOOSE k \in 1..Len(params) :
                        /\ params[k] = param
                        /\ \A m \in (k + 1)..Len(params) : params[m] # param
        IN  IF last <= Len(args) THEN args[last] ELSE Undefined]

\* the wrapper, had it let the names of the context win over the parameters
CallFunction_OuterNamesWin(f, args, h, depth) ==
    IF "host" \in DOMAIN f THEN At(HostCall(f.host, args, h), h)
    ELSE IF depth = 0 THEN At(Throw("Maximum call stack size exceeded"), h)
    ELSE safeEvalAt(f.body,
                    BuildContext(f.userVars, f.fns, f.ans, f.ext)
                        @@ BindParameters(f.params, args),
                    h, depth - 1)

\* a call of a function value: a host function, or the wrapper of a user
\* function, which copies its context, binds the parameters and evaluates
\* the body
CallFunction(f, args, h, depth) ==
    IF "host" \in DOMAIN f THEN At(HostCall(f.host, args, h), h)
    ELSE IF depth = 0 THEN At(Throw("Maximum call stack size exceeded"), h)
    ELSE safeEvalAt(f.body,
                    BindParameters(f.params, args)
                        @@ BuildContext(f.userVars, f.fns, f.ans, f.ext),
                    h, depth - 1)

\* safeEval(expression, context) with depth more calls allowed to nest
safeEvalAt(expression, context, h, depth) ==
    IF \E key \in DOMAIN context : ~IsParameterName(key)
    THEN At(Throw("Unexpected token"), h)
    ELSE RunCompiled(ParseReturnOperand(expression), context, h, depth)

safeEval(expression, context, h) == safeEvalAt(expression, context, h, MaxCallDepth)

(***************************************************************************)
(* evaluate.ts: evaluateLine and evaluateDocument                          *)
(***************************************************************************)

\* the end of the try block of evaluateLine for the outcome stored of
\* setVariable: the result of an assignment line
AssignmentResult(lineNumber, sc, value, stored) ==
    IF stored.threw
    THEN [result |-> [lineNumber |-> lineNumber, type |-> "error",
                      error |-> "Cyclic __proto__ value"],
          heap |-> stored.heap, scope |-> sc]
    ELSE [result |-> [lineNumber |-> lineNumber, result |-> value.v, type |-> "assignment"],
          heap |-> stored.heap, scope |-> sc]

\* the try and catch blocks, had the catch block kept a result in the record
ExpressionResult_ErrorKeepsResult(p, sc, lineNumber, value) ==
    IF ~value.ok
    THEN [result |-> [lineNumber |-> lineNumber, result |-> Undefined, type |-> "error",
                      error |-> value.error],
          heap |-> value.heap, scope |-> sc]
    ELSE IF "varName" \in DOMAIN p /\ p.varName # ""
    THEN AssignmentResult(lineNumber, sc, value,
                          setVariable(value.heap, sc, p.varName, value.v))
    ELSE [result |-> [lineNumber |-> lineNumber, result |-> value.v, type |-> "value"],
          heap |-> value.heap, scope |-> sc]

\* the try block of evaluateLine after safeEval, and its catch block, for
\* the outcome value of safeEval
ExpressionResult(p, sc, lineNumber, value) ==
    IF ~value.ok
    THEN [result |-> [lineNumber |-> lineNumber, type |-> "error", error |-> value.error],
          heap |-> value.heap, scope |-> sc]
    ELSE IF "varName" \in DOMAIN p /\ p.varName # ""
    THEN AssignmentResult(lineNumber, sc, value,
                          setVariable(value.heap, sc, p.varName, value.v))
    ELSE [result |-> [lineNumber |-> lineNumber, result |-> value.v, type |-> "value"],
          heap |-> value.heap, scope |-> sc]

\* the function-definition branch, had it compiled the body before storing
\* the function
FunctionDefinitionResult_BodyCompiled(p, h, sc, lineNumber) ==
    IF p.funcName # "" /\ p.funcBody # "" /\ ParseReturnOperand(p.funcBody).st # "syntax"
    THEN [result |-> [lineNumber |-> lineNumber, type |-> "function-def"],
          heap |-> h,
          scope |-> defineFunction(sc, p.funcName, p.funcParams, p.funcBody)]
    ELSE [result |-> [lineNumber |-> lineNumber, type |-> "error",
                      error |-> "Invalid function definition"],
          heap |-> h, scope |-> sc]

\* the function-definition branch of evaluateLine.  parsed.funcParams is an
\* array and so always truthy.
FunctionDefinitionResult(p, h, sc, lineNumber) ==
    IF p.funcName # "" /\ p.funcBody # ""
    THEN [result |-> [lineNumber |-> lineNumber, type |-> "function-def"],
          heap |-> h,
          scope |-> defineFunction(sc, p.funcName, p.funcParams, p.funcBody)]
    ELSE [result |-> [lineNumber |-> lineNumber, type |-> "error",
                      error |-> "Invalid function definition"],
          heap |-> h, scope |-> sc]

\* evaluateLine(parsed, scope, lineNumber, ans): the EvaluationResult, and
\* the heap and the scope afterwards
evaluateLine(p, h, sc, lineNumber, lastAns, ext) ==
    IF p.type = "text"
    THEN [result |-> [lineNumber |-> lineNumber, type |-> "text"], heap |-> h, scope |-> sc]
    ELSE IF p.type = "comment"
    THEN [result |-> [lineNumber |-> lineNumber, type |-> "comment"], heap |-> h, scope |-> sc]
    ELSE IF p.type = "function-def"
    THEN FunctionDefinitionResult(p, h, sc, lineNumber)
    ELSE IF p.type = "expression" /\ p.expression # ""
    THEN ExpressionResult(p, sc, lineNumber,
                          safeEval(p.expression, buildEvalContext(h, sc, lastAns, ext), h))
    ELSE [result |-> [lineNumber |-> lineNumber, type |-> "text"], heap |-> h, scope |-> sc]

\* result.result !== undefined && result.type !== 'error'
UpdatesAns(result) ==
    /\ "result" \in DOMAIN result
    /\ result.result # Undefined
    /\ result.type # "error"

\* the two calls of setVariable of the loop body
WriteAns(h, sc, newAns) ==
    setVariable(setVariable(h, sc, "ans", newAns).heap, sc, "_", newAns).heap

\* the loop body after evaluateLine, without its two calls of setVariable
AfterLine_NoScopeWrite(out, lastAns) ==
    IF UpdatesAns(out.result)
    THEN [result |-> out.result, heap |-> out.heap, scope |-> out.scope,
          ans |-> out.result.result]
    ELSE [result |-> out.result, heap |-> out.heap, scope |-> out.scope, ans |-> lastAns]

\* the loop body of evaluateDocument after evaluateLine returned out: the
\* result pushed, and the heap, the scope and ans afterwards
AfterLine(out, lastAns) ==
    IF UpdatesAns(out.result)
    THEN [result |-> out.result,
          heap |-> WriteAns(out.heap, out.scope, out.result.result),
          scope |-> out.scope,
          ans |-> out.result.result]
    ELSE [result |-> out.result, heap |-> out.heap, scope |-> out.scope, ans |-> lastAns]

\* one iteration of the loop of evaluateDocument for line number k
LoopBody(p, h, sc, k, lastAns, ext) ==
    AfterLine(evaluateLine(p, h, sc, k, lastAns, ext), lastAns)

(***************************************************************************)
(* The notes backend (firestore.ts): one user's profile and notes          *)
(*                                                                         *)
(* Each of createNote, deleteNote and bulkSyncNotes runs in a Firestore    *)
(* transaction that reads through the transaction before it writes, so a   *)
(* committed transaction takes effect as one step on the documents as they *)
(* are when it commits; concurrent requests are all orders of such steps.  *)
(***************************************************************************)

\* the free tier's limit, as createNote and bulkSyncNotes write it
NoteLimit == 5

\* the most notes and the most deletedIds of one sync request
MaxSyncItems == 2

\* how far below 0 the stored noteCount is followed
MaxCountDrift == 2

\* the ids notesRef.doc() generates, in the order it generates them
AutoIds == <<"n1", "n2", "n3", "n4", "n5">>

\* an id chosen by a client, and an id no note ever had
ClientIds == {"c1"}

UnknownIds == {"gone"}

\* no profile document and no note document
NoDocuments == [user |-> [exists |-> FALSE], notes |-> {}, generated |-> 0]

FirestoreIdle == firestore = NoDocuments

\* the profile a transaction works with after transaction.get(userRef)
ReadProfile(fs) ==
    IF fs.user.exists THEN [tier |-> fs.user.tier, noteCount |-> fs.user.noteCount]
    ELSE [tier |-> "free", noteCount |-> 0]

\* the error both functions throw at the limit; the transaction writes nothing
LimitExceeded(fs) == [ok |-> FALSE, code |-> "LIMIT_EXCEEDED", firestore |-> fs]

\* createNote(userId, input): the outcome and the documents afterwards
createNote(fs) ==
    LET profile == ReadProfile(fs)
        id == AutoIds[fs.generated + 1]
    IN  IF profile.tier = "free" /\ profile.noteCount >= NoteLimit THEN LimitExceeded(fs)
        ELSE [ok |-> TRUE, id |-> id,
              firestore |-> [user |-> [exists |-> TRUE, tier |-> profile.tier,
                                       noteCount |-> profile.noteCount + 1],
                             notes |-> fs.notes \cup {id},
                             generated |-> fs.generated + 1]]

\* deleteNote(userId, noteId).  transaction.update fails on a profile
\* document that does not exist, and the transaction with it.
deleteNote(fs, noteId) ==
    IF noteId \notin fs.notes THEN [ok |-> TRUE, deleted |-> FALSE, firestore |-> fs]
    ELSE IF ~fs.user.exists THEN [ok |-> FALSE, code |-> "NOT_FOUND", firestore |-> fs]
    ELSE [ok |-> TRUE, deleted |-> TRUE,
          firestore |-> [fs EXCEPT !.notes = @ \ {noteId},
                                   !.user.noteCount = @ - 1]]

\* the ids of a sequence of ids or of note entries
Range(seq) == {seq[k] : k \in DOMAIN seq}

\* no id: the entry of a note the client has not stored yet
NoId == ""

\* bulkSyncNotes(userId, notes, deletedIds), notes given by their ids: the
\* entries without id get generated ids, the creations and updates are
\* written, then the deletions
bulkSyncNotes(fs, notes, deletedIds) ==
    LET profile == ReadProfile(fs)
        existingNoteIds == {id \in Range(notes) : id # NoId /\ id \in fs.notes}
        notesToCreate == SelectSeq(notes, LAMBDA id : id = NoId \/ id \notin existingNoteIds)
        notesToUpdate == SelectSeq(notes, LAMBDA id : id # NoId /\ id \in existingNoteIds)
        newNoteCount == profile.noteCount + Len(notesToCreate) - Len(deletedIds)
        unnamed == Len(SelectSeq(notesToCreate, LAMBDA id : id = NoId))
        created == (Range(notesToCreate) \ {NoId})
                       \cup {AutoIds[fs.generated + k] : k \in 1..unnamed}
    IN  IF profile.tier = "free" /\ newNoteCount > NoteLimit THEN LimitExceeded(fs)
        ELSE [ok |-> TRUE, created |-> created, updated |-> Range(notesToUpdate),
              firestore |-> [user |-> [exists |-> TRUE, tier |-> profile.tier,
                                       noteCount |-> newNoteCount],
                             notes |-> (fs.notes \cup created) \ Range(deletedIds),
                             generated |-> fs.generated + unnamed]]

\* the ids a request names: the first generated id, the client's id and the
\* id no note ever had
RequestIds == {AutoIds[1]} \cup ClientIds \cup UnknownIds

\* the notes of a sync request: new notes without id, and the client's id
SyncNotes == UNION {[1..n -> {NoId} \cup ClientIds] : n \in 0..MaxSyncItems}

\* the deletedIds of a sync request
SyncDeletedIds == UNION {[1..n -> {AutoIds[1]} \cup UnknownIds] : n \in 0..MaxSyncItems}

(***************************************************************************)
(* useSync (hooks): the sync queue, the timers and the calls of performSync *)
(*                                                                         *)
(* A user is signed in.  A state update (setQueue, setStatus) is rendered   *)
(* before the next event is handled.  Every callback works with the queue   *)
(* of the render that created it: performSync reads `queue` from its        *)
(* closure, so a call carries the queue its caller's render had.  The tabs  *)
(* and their merge with the server's notes (onTabsUpdate) are the caller's  *)
(* state; they never enter the queue and are left out.                      *)
(***************************************************************************)

MAX_RETRIES == 3

\* how many calls of performSync may be suspended at an await at a time
MaxCalls == 2

\* how many times queueChange and queueDeletion are called (the calls
\* happen at the times 1, 2, ... of Date.now())
MaxQueued == 2

\* how many requests the server rejects
MaxRejected == 1

\* the ids of the tabs that are edited
SyncTabIds == {"t1"}

\* a queue without changes (a map from tab ids to timestamps) and deletions
NoQueue == [changes |-> <<>>, deletions |-> {}]

\* const pendingChanges = queue.changes.size + queue.deletions.size
pendingChanges(q) == Cardinality(DOMAIN q.changes) + Cardinality(q.deletions)

\* the hook's state and refs before it is mounted; listener is the queue of
\* the render that registered handleOnline, calls the suspended calls of
\* performSync, debounce and retry the closures of the pending timers
NoHook ==
    [queue |-> NoQueue, listener |-> NoQueue, online |-> TRUE, status |-> "synced",
     error |-> "", isSyncing |-> FALSE, retryCount |-> 0, debounce |-> <<>>,
     retry |-> <<>>, calls |-> <<>>, now |-> 0, rejected |-> 0]

\* the queued change of a tab, or the queued deletion (timestamp 0)
Item(kind, id, timestamp) == [kind |-> kind, id |-> id, timestamp |-> timestamp]

\* the calls of performSync between their listNotes request and their end
InFlight(h) == {k \in DOMAIN h.calls : h.calls[k].at \in {"list", "sync"}}

\* setQueue(q), rendered: the effect with the dependency pendingChanges
\* registers handleOnline anew when the number changed
setQueue(h, q) ==
    [h EXCEPT !.queue = q,
              !.listener = IF pendingChanges(q) # pendingChanges(h.queue) THEN q ELSE @]

\* performSync() up to `await getAuthToken()`, called from a closure whose
\* queue is q
performSync(h, q) ==
    IF h.isSyncing THEN h
    ELSE IF ~h.online THEN [h EXCEPT !.status = "offline"]
    ELSE [h EXCEPT !.calls = Append(@, [at |-> "token", queue |-> q, during |-> {},
                                         overlaps |-> InFlight(h) # {},
                                         request |-> {}])]

\* a sequence without its k-th element
Drop(seq, k) == SubSeq(seq, 1, k - 1) \o SubSeq(seq, k + 1, Len(seq))

\* an item queued while a call is between its listNotes request and its
\* end is noted on the call
NotedOnCalls(calls, item) ==
    [k \in DOMAIN calls |->
        IF calls[k].at \in {"list", "sync"} THEN [calls[k] EXCEPT !.during = @ \cup {item}]
        ELSE calls[k]]

\* queueChange(tab) for the tab id: setQueue, and the debounce timer set
\* anew with the performSync of the render queueChange was called in
queueChange(h, id) ==
    [setQueue(h, [h.queue EXCEPT !.changes = (id :> (h.now + 1)) @@ @])
        EXCEPT !.now = @ + 1,
               !.debounce = <<h.queue>>,
               !.calls = NotedOnCalls(@, Item("change", id, h.now + 1))]

\* queueDeletion(tabId)
queueDeletion(h, id) ==
    [setQueue(h, [changes |-> [t \in DOMAIN h.queue.changes \ {id} |-> h.queue.changes[t]],
                  deletions |-> h.queue.deletions \cup {id}])
        EXCEPT !.now = @ + 1,
               !.debounce = <<h.queue>>,
               !.calls = NotedOnCalls(@, Item("deletion", id, 0))]

\* the request performSync builds from the queue of its closure when the
\* server holds a newer note for the ids in newer
SyncRequest(q, newer) ==
    {Item("change", id, q.changes[id]) : id \in DOMAIN q.changes \ newer}
        \cup {Item("deletion", id, 0) : id \in q.deletions}

\* the end of the try block of the k-th call: the queue cleared, then finally
SyncSucceeded(h, k) ==
    [setQueue(h, NoQueue) EXCEPT !.status = "synced", !.retryCount = 0,
                                 !.isSyncing = FALSE, !.calls = Drop(@, k)]

\* the catch block of the k-th call, then finally
SyncFailed(h, k) ==
    [h EXCEPT !.error = "Sync failed",
              !.retryCount = IF @ < MAX_RETRIES THEN @ + 1 ELSE @,
              !.retry = IF h.retryCount < MAX_RETRIES THEN Append(@, h.calls[k].queue) ELSE @,
              !.status = IF h.retryCount < MAX_RETRIES THEN @ ELSE "error",
              !.rejected = @ + 1,
              !.isSyncing = FALSE,
              !.calls = Drop(@, k)]

(***************************************************************************)
(* Tab storage (storage/local.ts): the data stored under flownote_data     *)
(*                                                                         *)
(* The stored data is its list of tabs and activeTabId (globalVariables is  *)
(* carried along unchanged and left out).  A tab's updatedAt is 0 as       *)
(* loaded and 1 once a call has set it to Date.now().  localStorage.setItem *)
(* may throw (the quota); saveData catches that and nothing is written.     *)
(***************************************************************************)

\* createDefaultData(): one tab with a newly generated id
createDefaultData ==
    [tabs |-> <<[id |-> "generated", name |-> "Note 1", content |-> "example",
                 updatedAt |-> 1]>>,
     activeTabId |-> "generated"]

\* the index of the first tab with the id tabId, 0 if there is none
\* (findIndex, counted from 1)
findIndex(tabs, tabId) ==
    IF \E k \in DOMAIN tabs : tabs[k].id = tabId
    THEN CHOOSE k \in DOMAIN tabs :
             tabs[k].id = tabId /\ \A m \in 1..(k - 1) : tabs[m].id # tabId
    ELSE 0

\* loadData() on the stored data st
loadData(st) ==
    IF Len(st.tabs) = 0 THEN createDefaultData
    ELSE IF findIndex(st.tabs, st.activeTabId) = 0
    THEN [st EXCEPT !.activeTabId = st.tabs[1].id]
    ELSE st

\* saveData(data): what is stored afterwards; written is FALSE when setItem
\* throws
saveData(st, data, written) == IF written THEN data ELSE st

\* deleteTab(tabId) that leaves activeTabId as it is
deleteTab_KeepsActiveId(st, tabId, written) ==
    LET data == loadData(st)
        tabIndex == findIndex(data.tabs, tabId)
        newTabs == SelectSeq(data.tabs, LAMBDA tab : tab.id # tabId)
        kept == [tabs |-> newTabs, activeTabId |-> data.activeTabId]
    IN  IF Len(data.tabs) <= 1 THEN [threw |-> FALSE, result |-> Null, stored |-> st]
        ELSE IF tabIndex = 0
        THEN [threw |-> FALSE, result |-> data, stored |-> st]
        ELSE [threw |-> FALSE, result |-> kept, stored |-> saveData(st, kept, written)]

\* deleteTab(tabId): what it returns and what is stored afterwards; it
\* throws a TypeError when no tab is left to become the active one
deleteTab(st, tabId, written) ==
    LET data == loadData(st)
        tabIndex == findIndex(data.tabs, tabId)
        newTabs == SelectSeq(data.tabs, LAMBDA tab : tab.id # tabId)
        newActiveIndex == IF tabIndex > 1 THEN tabIndex - 1 ELSE 1
        left == [tabs |-> newTabs,
                 activeTabId |-> IF data.activeTabId = tabId THEN newTabs[newActiveIndex].id
                                 ELSE data.activeTabId]
    IN  IF Len(data.tabs) <= 1 THEN [threw |-> FALSE, result |-> Null, stored |-> st]
        ELSE IF tabIndex = 0
        THEN [threw |-> FALSE, result |-> data, stored |-> st]
        ELSE IF data.activeTabId = tabId /\ newTabs = <<>>
        THEN [threw |-> TRUE, stored |-> st]
        ELSE [threw |-> FALSE, result |-> left, stored |-> saveData(st, left, written)]

\* renameTab and updateTabContent: the field of the first tab with the id
\* set to value and updatedAt to Date.now(), saved when there is such a tab
WithTabField(st, tabId, field, value, written) ==
    LET data == loadData(st)
        k == findIndex(data.tabs, tabId)
        changed == [data EXCEPT !.tabs[k] = [@ EXCEPT ![field] = value, !.updatedAt = 1]]
    IN  IF k = 0 THEN [result |-> data.tabs, stored |-> st]
        ELSE [result |-> changed.tabs, stored |-> saveData(st, changed, written)]

renameTab(st, tabId, newName, written) == WithTabField(st, tabId, "name", newName, written)

updateTabContent(st, tabId, text, written) ==
    WithTabField(st, tabId, "content", text, written).stored

\* setActiveTab(tabId)
setActiveTab(st, tabId, written) ==
    LET data == loadData(st)
    IN  IF findIndex(data.tabs, tabId) = 0 THEN st
        ELSE saveData(st, [data EXCEPT !.activeTabId = tabId], written)

\* nothing is stored yet
NoStoredData == [tabs |-> <<>>, activeTabId |-> ""]

\* the frontend does not run
ClientIdle == hook = NoHook /\ localStorage = NoStoredData

(***************************************************************************)
(* Inputs                                                                  *)
(***************************************************************************)

\* the longest document, in lines
MaxLines == 3

\* the lines documents are made of, by theme; a document takes its lines
\* from one theme
LineCatalog ==
    << \* assignments and the last answer
       {"x = 2", "y = x * 3", "", "5 + 5", "ans * 2", "# note"},
       \* user functions and the variables their bodies name
       {"f(a) = a * x", "x = 2", "x = 5", "f(3)"},
       \* a parameter with the name of a variable
       {"a = 7", "d(a) = a + 1", "d(3)", "a"},
       \* function bodies that fail, and comparisons
       {"g(b) = b + u", "g(1)", "f(x) == 2", "f(1)", "u = 1", "g(b, c) = c"},
       \* dot paths and shared objects
       {"a.b = 1", "c = a", "a.x = 2", "a.c", "1 + (a.b = 7) + zz", "a.__proto__ = a"},
       \* names the host language reserves
       {"in = 3", "x = 1", "x + 1", "// rate", "class(a) = a", "__proto__(a) = a"},
       \* the names of the last answer
       {"ans(a) = a + 1", "5 + 5", "ans(1)", "ans = 7", "ans.x = 5", "_"} >>

\* the lines of documents evaluated with external variables
ExternalCatalog == {"taxRate", "taxRate = 0.5", "taxRate * 100", "in = 3", "x = 1"}

\* the external variables of those documents
ExternalInputs ==
    {[name \in {"taxRate"} |-> Frac(8, 100)],
     [name \in {"taxRate", "x"} |-> IF name = "x" THEN Num(7) ELSE Frac(8, 100)]}

\* lines joined by "\n"
RECURSIVE Join(_)
Join(lines) ==
    IF Len(lines) = 0 THEN ""
    ELSE IF Len(lines) = 1 THEN lines[1]
    ELSE lines[1] \o "\n" \o Join(Tail(lines))

\* the documents of at most MaxLines lines over a set of lines
DocumentsOver(lines) ==
    {Join(ls) : ls \in UNION {[1..n -> lines] : n \in 1..MaxLines}}

NoExternals == <<>>

\* the calls of evaluateDocument that are tried
Calls ==
    UNION {{[content |-> d, externalVariables |-> NoExternals] :
                d \in DocumentsOver(LineCatalog[g])} : g \in DOMAIN LineCatalog}
    \cup {[content |-> d, externalVariables |-> ext] :
              d \in DocumentsOver(ExternalCatalog), ext \in ExternalInputs}

(***************************************************************************)
(* The document evaluator as a state machine                               *)
(***************************************************************************)

\* the values of the variables an operation does not use
Idle == "idle"

ParserIdle == line = "" /\ parsed = [type |-> "none"]

ScopeStoreIdle == lastCall = [op |-> "none"]

EvaluatorIdle ==
    /\ content = ""
    /\ externalVariables = NoExternals
    /\ parsedLines = <<>>
    /\ i = 0
    /\ results = <<>>
    /\ ans = Num(0)
    /\ before = [op |-> "none"]
    /\ history = <<>>

Init ==
    /\ pc = Idle
    /\ heap = HostHeap
    /\ scope = [variables |-> 0, functions |-> <<>>]
    /\ ParserIdle
    /\ ScopeStoreIdle
    /\ EvaluatorIdle
    /\ FirestoreIdle
    /\ ClientIdle

\* evaluateDocument up to its loop: parseDocument, createScope, ans = 0
EvaluateDocumentCall ==
    /\ pc = Idle
    /\ \E call \in Calls :
          /\ content' = call.content
          /\ externalVariables' = call.externalVariables
          /\ parsedLines' = parseDocument(call.content)
    /\ heap' = createScope(heap).heap
    /\ scope' = createScope(heap).scope
    /\ results' = <<>>
    /\ ans' = Num(0)
    /\ i' = 0
    /\ before' = [op |-> "none"]
    /\ pc' = "loop"
    /\ UNCHANGED <<line, parsed, lastCall, history, firestore, hook, localStorage>>

\* an iteration that does not advance to the next line
LoopIteration_SameLineAgain ==
    /\ pc = "loop"
    /\ i < Len(parsedLines)
    /\ \E out \in {LoopBody(parsedLines[i + 1], heap, scope, i + 1, ans, externalVariables)} :
           /\ results' = Append(results, out.result)
           /\ heap' = out.heap
           /\ scope' = out.scope
           /\ ans' = out.ans
    /\ before' = [op |-> "line", heap |-> heap, scope |-> scope, ans |-> ans]
    /\ i' = i
    /\ UNCHANGED <<line, parsed, lastCall, content, externalVariables, parsedLines, pc,
                   history, firestore, hook, localStorage>>

\* one iteration of the loop of evaluateDocument
LoopIteration ==
    /\ pc = "loop"
    /\ i < Len(parsedLines)
    /\ \E out \in {LoopBody(parsedLines[i + 1], heap, scope, i + 1, ans, externalVariables)} :
           /\ results' = Append(results, out.result)
           /\ heap' = out.heap
           /\ scope' = out.scope
           /\ ans' = out.ans
    /\ before' = [op |-> "line", heap |-> heap, scope |-> scope, ans |-> ans]
    /\ i' = i + 1
    /\ UNCHANGED <<line, parsed, lastCall, content, externalVariables, parsedLines, pc,
                   history, firestore, hook, localStorage>>

\* the return of evaluateDocument
Return ==
    /\ pc = "loop"
    /\ i = Len(parsedLines)
    /\ pc' = "done"
    /\ UNCHANGED <<line, parsed, heap, scope, lastCall, content, externalVariables,
                   parsedLines, i, results, ans, before, history, firestore, hook, localStorage>>

Next == EvaluateDocumentCall \/ LoopIteration \/ Return

Spec == Init /\ [][Next]_vars

(***************************************************************************)
(* Several documents evaluated one after the other by one process          *)
(***************************************************************************)

\* the most calls of evaluateDocument of one process
MaxEvaluations == 2

\* the documents that are evaluated
SessionDocuments ==
    {"x = 2\nf(a) = a + x", "f(1)", "x", "ans + 1", "5 + 5\n_",
     "b.c = 1\nb.x", "a.__proto__.x = 5", "c = b"}

\* the names those documents give to variables and functions
SessionNames == {"x", "f", "a", "b", "c", "ans", "_"}

InitSession == Init

\* a call of evaluateDocument, the first of the process or one after an
\* earlier call returned: the host's objects stay as the earlier calls left
\* them, everything evaluateDocument declares is new
SessionCall ==
    /\ pc \in {Idle, "done"}
    /\ Len(history) + (IF pc = "done" THEN 1 ELSE 0) < MaxEvaluations
    /\ \E d \in SessionDocuments :
          /\ content' = d
          /\ parsedLines' = parseDocument(d)
    /\ externalVariables' = NoExternals
    /\ heap' = createScope(heap).heap
    /\ scope' = createScope(heap).scope
    /\ results' = <<>>
    /\ ans' = Num(0)
    /\ i' = 0
    /\ before' = [op |-> "none"]
    /\ history' = IF pc = "done" THEN Append(history, content) ELSE history
    /\ pc' = "loop"
    /\ UNCHANGED <<line, parsed, lastCall, firestore, hook, localStorage>>

NextSession == SessionCall \/ LoopIteration \/ Return

SpecSession == InitSession /\ [][NextSession]_vars

(***************************************************************************)
(* The notes backend as a state machine                                    *)
(***************************************************************************)

InitNotes ==
    /\ pc = "notes"
    /\ heap = HostHeap
    /\ scope = [variables |-> 0, functions |-> <<>>]
    /\ ParserIdle
    /\ ScopeStoreIdle
    /\ EvaluatorIdle
    /\ FirestoreIdle
    /\ ClientIdle

\* what a request leaves unchanged
NotesFrame ==
    UNCHANGED <<line, parsed, heap, scope, content, externalVariables, parsedLines, i,
                results, ans, pc, before, history, hook, localStorage>>

\* a createNote transaction
CreateNoteTransaction ==
    /\ pc = "notes"
    /\ firestore.generated < Len(AutoIds)
    /\ \E done \in {createNote(firestore)} :
          /\ firestore' = done.firestore
          /\ lastCall' = [op |-> "createNote", ok |-> done.ok, found |-> firestore]
    /\ NotesFrame

\* a deleteNote transaction
DeleteNoteTransaction ==
    /\ pc = "notes"
    /\ \E noteId \in RequestIds :
          \E done \in {deleteNote(firestore, noteId)} :
              /\ firestore' = done.firestore
              /\ lastCall' = [op |-> "deleteNote", ok |-> done.ok, found |-> firestore,
                              noteId |-> noteId]
    /\ NotesFrame

\* a bulkSyncNotes transaction
BulkSyncTransaction ==
    /\ pc = "notes"
    /\ \E notes \in SyncNotes, deletedIds \in SyncDeletedIds :
          /\ firestore.generated + Len(notes) <= Len(AutoIds)
          /\ \E done \in {bulkSyncNotes(firestore, notes, deletedIds)} :
                /\ done.firestore.user.exists => done.firestore.user.noteCount >= -MaxCountDrift
                /\ firestore' = done.firestore
                /\ lastCall' = [op |-> "bulkSyncNotes", ok |-> done.ok, found |-> firestore,
                                notes |-> notes, deletedIds |-> deletedIds]
    /\ NotesFrame

NextNotes == CreateNoteTransaction \/ DeleteNoteTransaction \/ BulkSyncTransaction

SpecNotes == InitNotes /\ [][NextNotes]_vars

(***************************************************************************)
(* useSync as a state machine: the events of the hook in every order       *)
(***************************************************************************)

\* the queues loadSyncQueue() finds: none, or a change an earlier session left
StoredQueues == {NoQueue, [changes |-> ("t1" :> 0), deletions |-> {}]}

InitSync ==
    /\ pc = "useSync"
    /\ heap = HostHeap
    /\ scope = [variables |-> 0, functions |-> <<>>]
    /\ ParserIdle
    /\ ScopeStoreIdle
    /\ EvaluatorIdle
    /\ FirestoreIdle
    /\ ClientIdle

\* what the hook leaves unchanged
SyncFrame ==
    UNCHANGED <<line, parsed, heap, scope, content, externalVariables, parsedLines, i,
                results, ans, before, history, firestore, localStorage>>

\* the first render and its effects: the queue loaded, the status set from
\* navigator.onLine, the initial sync
Mount ==
    /\ pc = "useSync"
    /\ \E q \in StoredQueues, onLine \in BOOLEAN :
          LET h == [NoHook EXCEPT !.queue = q, !.listener = q, !.online = onLine,
                                  !.status = IF onLine THEN "synced" ELSE "offline"]
          IN  hook' = IF onLine THEN performSync(h, q) ELSE h
    /\ pc' = "mounted"
    /\ lastCall' = [op |-> "mount"]
    /\ SyncFrame

\* the user edits a tab: queueChange(tab)
QueueChange ==
    /\ pc = "mounted"
    /\ hook.now < MaxQueued
    /\ \E id \in SyncTabIds : hook' = queueChange(hook, id)
    /\ lastCall' = [op |-> "queueChange"]
    /\ UNCHANGED pc
    /\ SyncFrame

\* the user closes a tab: queueDeletion(tabId)
QueueDeletion ==
    /\ pc = "mounted"
    /\ hook.now < MaxQueued
    /\ \E id \in SyncTabIds : hook' = queueDeletion(hook, id)
    /\ lastCall' = [op |-> "queueDeletion"]
    /\ UNCHANGED pc
    /\ SyncFrame

\* triggerSync(), from the render that is current
TriggerSync ==
    /\ pc = "mounted"
    /\ Len(hook.calls) < MaxCalls
    /\ hook' = performSync([hook EXCEPT !.debounce = <<>>], hook.queue)
    /\ lastCall' = [op |-> "triggerSync"]
    /\ UNCHANGED pc
    /\ SyncFrame

\* the debounce timer fires
DebounceTimer ==
    /\ pc = "mounted"
    /\ Len(hook.calls) < MaxCalls
    /\ hook.debounce # <<>>
    /\ hook' = performSync([hook EXCEPT !.debounce = <<>>], hook.debounce[1])
    /\ lastCall' = [op |-> "debounce"]
    /\ UNCHANGED pc
    /\ SyncFrame

\* the oldest retry timer fires
RetryTimer ==
    /\ pc = "mounted"
    /\ Len(hook.calls) < MaxCalls
    /\ hook.retry # <<>>
    /\ hook' = performSync([hook EXCEPT !.retry = Tail(@)], Head(hook.retry))
    /\ lastCall' = [op |-> "retry"]
    /\ UNCHANGED pc
    /\ SyncFrame

\* the browser's online event
handleOnline ==
    /\ pc = "mounted"
    /\ Len(hook.calls) < MaxCalls
    /\ ~hook.online
    /\ LET h == [hook EXCEPT !.online = TRUE, !.status = "synced"]
       IN  hook' = IF pendingChanges(hook.listener) > 0 THEN performSync(h, hook.listener)
                   ELSE h
    /\ lastCall' = [op |-> "online"]
    /\ UNCHANGED pc
    /\ SyncFrame

\* the browser's offline event
handleOffline ==
    /\ pc = "mounted"
    /\ hook.online
    /\ hook' = [hook EXCEPT !.online = FALSE, !.status = "offline"]
    /\ lastCall' = [op |-> "offline"]
    /\ UNCHANGED pc
    /\ SyncFrame

\* getAuthToken() resolves for a suspended call, with a token or with null
TokenResolves ==
    /\ pc = "mounted"
    /\ \E k \in DOMAIN hook.calls, token \in BOOLEAN :
          /\ hook.calls[k].at = "token"
          /\ hook' = IF token
                     THEN [hook EXCEPT !.isSyncing = TRUE, !.status = "syncing",
                                       !.error = "", !.calls[k].at = "list"]
                     ELSE [hook EXCEPT !.error = "Not authenticated",
                                       !.calls = Drop(@, k)]
    /\ lastCall' = [op |-> "token"]
    /\ UNCHANGED pc
    /\ SyncFrame

\* notesApi.listNotes resolves: the request is built from the queue of the
\* call's closure and sent, or, when it is empty, the call ends
ListNotesResolves ==
    /\ pc = "mounted"
    /\ \E k \in DOMAIN hook.calls :
          /\ hook.calls[k].at = "list"
          /\ \E newer \in SUBSET DOMAIN hook.calls[k].queue.changes :
                LET request == SyncRequest(hook.calls[k].queue, newer)
                IN  IF request # {}
                    THEN /\ hook' = [hook EXCEPT !.calls[k].at = "sync",
                                                 !.calls[k].request = request]
                         /\ lastCall' = [op |-> "listNotes"]
                    ELSE /\ hook' = SyncSucceeded(hook, k)
                         /\ lastCall' = [op |-> "performSync", ok |-> TRUE,
                                         during |-> hook.calls[k].during,
                                         request |-> request]
    /\ UNCHANGED pc
    /\ SyncFrame

\* notesApi.syncNotes resolves: the call ends
SyncNotesResolves ==
    /\ pc = "mounted"
    /\ \E k \in DOMAIN hook.calls :
          /\ hook.calls[k].at = "sync"
          /\ hook' = SyncSucceeded(hook, k)
          /\ lastCall' = [op |-> "performSync", ok |-> TRUE,
                          during |-> hook.calls[k].during,
                          request |-> hook.calls[k].request]
    /\ UNCHANGED pc
    /\ SyncFrame

\* listNotes or syncNotes rejects
RequestRejected ==
    /\ pc = "mounted"
    /\ hook.rejected < MaxRejected
    /\ \E k \in InFlight(hook) :
          /\ hook' = SyncFailed(hook, k)
          /\ lastCall' = [op |-> "performSync", ok |-> FALSE,
                          during |-> hook.calls[k].during,
                          request |-> hook.calls[k].request]
    /\ UNCHANGED pc
    /\ SyncFrame

NextSync ==
    \/ Mount
    \/ QueueChange
    \/ QueueDeletion
    \/ TriggerSync
    \/ DebounceTimer
    \/ RetryTimer
    \/ handleOnline
    \/ handleOffline
    \/ TokenResolves
    \/ ListNotesResolves
    \/ SyncNotesResolves
    \/ RequestRejected

SpecSync == InitSync /\ [][NextSync]_vars

(***************************************************************************)
(* The tab storage: calls of deleteTab, renameTab, updateTabContent and    *)
(* setActiveTab on what the key flownote_data holds                        *)
(***************************************************************************)

\* the most tabs stored
MaxTabs == 3

\* the ids of the tabs (crypto.randomUUID() gives every tab its own)
TabPool == [k \in 1..MaxTabs |-> IF k = 1 THEN "t1" ELSE IF k = 2 THEN "t2"
                                 ELSE IF k = 3 THEN "t3" ELSE "t4"]

\* the ids a call is made with: the stored ones and one that names no tab
TabIdInputs == {TabPool[k] : k \in 1..MaxTabs} \cup {"closed"}

\* a tab as createTab makes it
NewTab(id) == [id |-> id, name |-> "Note", content |-> "", updatedAt |-> 0]

\* what the key holds when the page opens: nothing, or up to MaxTabs tabs
\* with an activeTabId that names one of them or a tab that is gone
StoredInputs ==
    {NoStoredData} \cup
    {[tabs |-> [k \in 1..n |-> NewTab(TabPool[k])], activeTabId |-> a] :
        n \in 1..MaxTabs, a \in TabIdInputs}

InitStorage ==
    /\ pc = "storage"
    /\ heap = HostHeap
    /\ scope = [variables |-> 0, functions |-> <<>>]
    /\ ParserIdle
    /\ ScopeStoreIdle
    /\ EvaluatorIdle
    /\ FirestoreIdle
    /\ hook = NoHook
    /\ localStorage \in StoredInputs

\* what the storage functions leave unchanged
StorageFrame ==
    UNCHANGED <<line, parsed, heap, scope, content, externalVariables, parsedLines, i,
                results, ans, pc, before, history, firestore, hook>>

DeleteTab ==
    /\ pc = "storage"
    /\ \E tabId \in TabIdInputs, written \in BOOLEAN :
           LET call == deleteTab(localStorage, tabId, written)
           IN  /\ localStorage' = call.stored
               /\ lastCall' = [op |-> "deleteTab", tabId |-> tabId, written |-> written,
                               threw |-> call.threw,
                               result |-> IF call.threw THEN Null ELSE call.result]
    /\ StorageFrame

RenameTab ==
    /\ pc = "storage"
    /\ \E tabId \in TabIdInputs, written \in BOOLEAN :
           LET call == renameTab(localStorage, tabId, "renamed", written)
           IN  /\ localStorage' = call.stored
               /\ lastCall' = [op |-> "renameTab", tabId |-> tabId, written |-> written,
                               result |-> call.result]
    /\ StorageFrame

UpdateTabContent ==
    /\ pc = "storage"
    /\ \E tabId \in TabIdInputs, written \in BOOLEAN :
           /\ localStorage' = updateTabContent(localStorage, tabId, "rent = 900", written)
           /\ lastCall' = [op |-> "updateTabContent", tabId |-> tabId, written |-> written]
    /\ StorageFrame

SetActiveTab ==
    /\ pc = "storage"
    /\ \E tabId \in TabIdInputs, written \in BOOLEAN :
           /\ localStorage' = setActiveTab(localStorage, tabId, written)
           /\ lastCall' = [op |-> "setActiveTab", tabId |-> tabId, written |-> written]
    /\ StorageFrame

NextStorage ==
    \/ DeleteTab
    \/ RenameTab
    \/ UpdateTabContent
    \/ SetActiveTab

SpecStorage == InitStorage /\ [][NextStorage]_vars

(***************************************************************************)
(* safeEval alone                                                          *)
(***************************************************************************)

\* the expressions that are compiled and run
EvalExpressions ==
    {"x", "y", "x + y", "x * 2", "1 + 2", "zz", "x + zz", "zz + x", "-zz", "(y)",
     "Infinity", "NaN", "undefined", "x + Infinity", "Date", "Function", "Object",
     "sum(x, y)", "sum(zz)", "x == zz"}

\* the binding tables they run against: every choice from three bindings
\* and the builtin sum
EvalContexts ==
    {[name \in keys |-> CASE name = "x" -> Num(2)
                           [] name = "y" -> Num(3)
                           [] name = "zz" -> Num(4)
                           [] name = "sum" -> [t |-> "function", host |-> "sum"]] :
        keys \in SUBSET {"x", "y", "zz", "sum"}}

InitEval ==
    /\ pc = "safeEval"
    /\ heap = HostHeap
    /\ scope = [variables |-> 0, functions |-> <<>>]
    /\ ParserIdle
    /\ ScopeStoreIdle
    /\ EvaluatorIdle
    /\ FirestoreIdle
    /\ ClientIdle

\* a call of safeEval; lastCall keeps the arguments and the outcome
SafeEvalCall ==
    /\ pc = "safeEval"
    /\ \E expression \in EvalExpressions, context \in EvalContexts :
          lastCall' = [op |-> "safeEval", expression |-> expression, context |-> context,
                       outcome |-> safeEval(expression, context, heap)]
    /\ pc' = "returned"
    /\ UNCHANGED <<line, parsed, heap, scope, content, externalVariables, parsedLines, i,
                   results, ans, before, history, firestore, hook, localStorage>>

NextEval == SafeEvalCall

SpecEval == InitEval /\ [][NextEval]_vars

(***************************************************************************)
(* The line classifier alone                                               *)
(***************************************************************************)

\* the longest line made of every combination of the characters of Alphabet
MaxLineLen == 4

Alphabet == {"a", "1", "=", "(", ")", " ", "#", "!", "."}

\* the strings of at most n characters of Alphabet
RECURSIVE StringsOver(_)
StringsOver(n) ==
    IF n = 0 THEN {""}
    ELSE StringsOver(n - 1) \cup {str \o c : str \in StringsOver(n - 1), c \in Alphabet}

\* an operand, an operator with or without blanks around it, an operand
ComparisonLines ==
    {lhs \o sp \o op \o sp \o rhs :
        lhs \in {"a", "f(x)", "a.b", "2"},
        op \in {"==", "!=", "<=", ">=", "===", "<", "="},
        sp \in {"", " "},
        rhs \in {"b", "2"}}

\* the lines of the catalogue, as they are and between blanks
CatalogLines ==
    LET lines == UNION {LineCatalog[g] : g \in DOMAIN LineCatalog} \cup ExternalCatalog
    IN  lines \cup {"  " \o l \o " " : l \in lines}

\* targets with several dots, and parameter lists
NameLines ==
    {"a.b.c = 1", "a..b = 1", "a.1 = 2", "_a1.b_ = 1", "f(a, b) = a", "f(1) = 2",
     "f(a b) = a", "f(a.b) = 1", "f( a ,, b ) = a", "f() = 1"}

LineInputs == StringsOver(MaxLineLen) \cup ComparisonLines \cup CatalogLines \cup NameLines

InitParse ==
    /\ pc = "parser"
    /\ heap = HostHeap
    /\ scope = [variables |-> 0, functions |-> <<>>]
    /\ ParserIdle
    /\ ScopeStoreIdle
    /\ EvaluatorIdle
    /\ FirestoreIdle
    /\ ClientIdle

\* a call of parseLine
ParseLineCall ==
    /\ pc = "parser"
    /\ \E l \in LineInputs :
          /\ line' = l
          /\ parsed' = parseLine(l)
    /\ pc' = "parsed"
    /\ UNCHANGED <<heap, scope, lastCall, content, externalVariables, parsedLines, i,
                   results, ans, before, history, firestore, hook, localStorage>>

NextParse == ParseLineCall

SpecParse == InitParse /\ [][NextParse]_vars

(***************************************************************************)
(* The scope store alone                                                   *)
(***************************************************************************)

\* the most calls of setVariable on one scope
MaxSetCalls == 3

\* the paths that are set
ScopePaths == {"a", "c", "a.b", "a.b.c", "__proto__", "a.__proto__"}

\* the values that are set: scalars, and the mappings the scope already holds
ScopeValues(h, sc) ==
    {Num(5), Null} \cup {v \in {getVariable(h, sc, p) : p \in {"a", "a.b"}} : v.t = "object"}

InitScope ==
    /\ pc = "scope"
    /\ heap = createScope(HostHeap).heap
    /\ scope = createScope(HostHeap).scope
    /\ lastCall = [op |-> "none", calls |-> 0]
    /\ ParserIdle
    /\ EvaluatorIdle
    /\ FirestoreIdle
    /\ ClientIdle

\* a call of setVariable; lastCall keeps its arguments, the heap it found and
\* whether it threw
SetVariableCall ==
    /\ pc = "scope"
    /\ lastCall.calls < MaxSetCalls
    /\ \E path \in ScopePaths, value \in ScopeValues(heap, scope) :
          LET done == setVariable(heap, scope, path, value)
          IN  /\ heap' = done.heap
              /\ lastCall' = [op |-> "setVariable", calls |-> lastCall.calls + 1,
                              path |-> path, value |-> value, threw |-> done.threw,
                              heap |-> heap]
    /\ UNCHANGED <<line, parsed, scope, content, externalVariables, parsedLines, i,
                   results, ans, pc, before, history, firestore, hook, localStorage>>

NextScope == SetVariableCall

SpecScope == InitScope /\ [][NextScope]_vars

(***************************************************************************)
(* The builtin aggregates alone                                            *)
(***************************************************************************)

\* the most arguments of a call of an aggregate
MaxArguments == 3

\* the calls of setVariable that build the mappings the aggregates are given
AggregateSets ==
    << <<"hotel.perNight", Num(180)>>, <<"hotel.nights", Num(4)>>,
       <<"t.a", Num(2)>>, <<"t.b.c", Num(3)>>,
       <<"w.s", Str("x")>>, <<"w.n", Null>>, <<"w.f", Bool(FALSE)>>,
       <<"q.i", Infinity>>, <<"q.n", NaN>>,
       <<"r.b", Num(1)>> >>

\* the heap after the calls sets of setVariable
RECURSIVE SetAll(_, _, _)
SetAll(h, sc, sets) ==
    IF sets = <<>> THEN h
    ELSE SetAll(setVariable(h, sc, sets[1][1], sets[1][2]).heap, sc, Tail(sets))

\* the heap the aggregates run on: the mappings of AggregateSets, and the
\* mapping r made to contain itself by setVariable(scope, "r.c", r)
AggregateHeap ==
    LET made == createScope(HostHeap)
        plain == SetAll(made.heap, made.scope, AggregateSets)
    IN  setVariable(plain, made.scope, "r.c", getVariable(plain, made.scope, "r")).heap

\* the values an argument is drawn from
AggregateValues ==
    {Num(1), Num(2), Num(3), NaN, Infinity, NumNeg(Infinity), Str("5"), Bool(TRUE), Null}
    \cup {getVariable(AggregateHeap, createScope(HostHeap).scope, name) :
              name \in {"hotel", "t", "w", "q", "r"}}

AggregateArguments == UNION {[1..n -> AggregateValues] : n \in 0..MaxArguments}

InitAggregates ==
    /\ pc = "aggregates"
    /\ heap = AggregateHeap
    /\ scope = createScope(HostHeap).scope
    /\ ScopeStoreIdle
    /\ ParserIdle
    /\ EvaluatorIdle
    /\ FirestoreIdle
    /\ ClientIdle

\* a call of sum, avg, min or max; lastCall keeps the name, the arguments
\* and the outcome
AggregateCall ==
    /\ pc = "aggregates"
    /\ \E name \in builtinFunctions, args \in AggregateArguments :
          lastCall' = [op |-> name, args |-> args, outcome |-> HostCall(name, args, heap)]
    /\ pc' = "returned"
    /\ UNCHANGED <<line, parsed, heap, scope, content, externalVariables, parsedLines, i,
                   results, ans, before, history, firestore, hook, localStorage>>

NextAggregates == AggregateCall

SpecAggregates == InitAggregates /\ [][NextAggregates]_vars

(***************************************************************************)
(* Properties of evaluateDocument                                          *)
(***************************************************************************)

\* the last step evaluated line i: results[i] is its result, `before` holds
\* the heap, the scope and the last answer it started from
LineEvaluated == before.op = "line"

\* the binding table of the line evaluated last
LineContext == buildEvalContext(before.heap, before.scope, before.ans, externalVariables)

\* the evaluation of the expression of the line evaluated last threw
ExpressionThrew ==
    /\ LineEvaluated
    /\ parsedLines[i].type = "expression"
    /\ ~safeEval(parsedLines[i].expression, LineContext, before.heap).ok

\* C1: a line whose expression evaluation throws yields one Error result
\* with a message and no value and leaves the variables, the functions and
\* the last answer as they were before the line; and every line of the
\* document gets evaluated.
C1_ErrorIsolation ==
    /\ ExpressionThrew =>
          /\ Len(results) = i
          /\ results[i].type = "error"
          /\ DOMAIN results[i] = {"lineNumber", "type", "error"}
          /\ heap = before.heap
          /\ scope = before.scope
          /\ ans = before.ans
    /\ pc = "done" => Len(results) = Len(parsedLines)

\* the value of the most recent Value or Assignment result, 0 if there is none
RECURSIVE LastValue(_)
LastValue(rs) ==
    IF rs = <<>> THEN Num(0)
    ELSE IF rs[Len(rs)].type \in {"value", "assignment"} THEN rs[Len(rs)].result
    ELSE LastValue(SubSeq(rs, 1, Len(rs) - 1))

\* C2: at the start of every line the names ans and _ of the binding table
\* both equal the value of the most recent earlier Value or Assignment line
\* (0 if there is none), and a Text, Comment, FunctionDefined or Error line
\* leaves the last answer as it was.
C2_LastAnswer ==
    /\ (pc = "loop" /\ i < Len(parsedLines)) =>
          LET context == buildEvalContext(heap, scope, ans, externalVariables)
          IN  /\ context["ans"] = LastValue(results)
              /\ context["_"] = LastValue(results)
    /\ (LineEvaluated /\ results[i].type \in {"text", "comment", "function-def", "error"}) =>
          ans = before.ans

\* line k reads the name key and nothing else
ReadsName(k, key) ==
    /\ parsedLines[k].type = "expression"
    /\ "varName" \notin DOMAIN parsedLines[k]
    /\ parsedLines[k].expression = key

\* line k is an assignment to the name key that succeeded
AssignsName(k, key) ==
    /\ parsedLines[k].type = "expression"
    /\ "varName" \in DOMAIN parsedLines[k]
    /\ parsedLines[k].varName = key
    /\ results[k].type = "assignment"

\* C3: a line that reads a key of externalVariables yields the external
\* value as long as no earlier line of the document assigned that name, and
\* the value of the latest such assignment afterwards.
C3_ExternalVariables ==
    \A k \in 1..Len(results) : \A key \in DOMAIN externalVariables :
        ReadsName(k, key) =>
            LET assigned == {m \in 1..(k - 1) : AssignsName(m, key)}
                expected == IF assigned = {} THEN externalVariables[key]
                            ELSE results[CHOOSE m \in assigned : \A n \in assigned : n <= m].result
            IN  results[k] = [lineNumber |-> k, result |-> expected, type |-> "value"]

\* the document of C4
AssignmentExample == "x = 2\ny = x * 3\n"

AssignmentExampleDone ==
    pc = "done" /\ content = AssignmentExample /\ externalVariables = NoExternals

\* C4 as stated: the document "x = 2\ny = x * 3\n" yields exactly the results
\* [Assignment 2, Assignment 6] and a final scope whose variables are
\* exactly {x: 2, y: 6}.
C4_AsStated ==
    AssignmentExampleDone =>
        /\ results = <<[lineNumber |-> 1, result |-> Num(2), type |-> "assignment"],
                       [lineNumber |-> 2, result |-> Num(6), type |-> "assignment"]>>
        /\ getTopLevelVariables(heap, scope) = [name \in {"x", "y"} |->
                                                   IF name = "x" THEN Num(2) ELSE Num(6)]

\* C4, amended: the document "x = 2\ny = x * 3\n" yields the results
\* [Assignment 2, Assignment 6, Text], the Text being the empty line after
\* the last newline, and a final scope whose variables are exactly
\* {x: 2, y: 6, ans: 6, _: 6} and that holds no function.
C4_AssignmentExample ==
    AssignmentExampleDone =>
        /\ results = <<[lineNumber |-> 1, result |-> Num(2), type |-> "assignment"],
                       [lineNumber |-> 2, result |-> Num(6), type |-> "assignment"],
                       [lineNumber |-> 3, type |-> "text"]>>
        /\ getTopLevelVariables(heap, scope) = [name \in {"x", "y", "ans", "_"} |->
                                                   IF name = "x" THEN Num(2) ELSE Num(6)]
        /\ scope.functions = <<>>

\* C4: the evaluation of the document has returned
C4_Witness == AssignmentExampleDone /\ Len(results) = 3

\* the syntax tree of the expression of the line evaluated last
CallTree == ParseReturnOperand(parsedLines[i].expression)

\* the line evaluated last is an expression without target that calls a user
\* function by its name
CallsUserFunction ==
    /\ LineEvaluated
    /\ parsedLines[i].type = "expression"
    /\ "varName" \notin DOMAIN parsedLines[i]
    /\ \A key \in DOMAIN LineContext : IsParameterName(key)
    /\ CallTree.st = "ok"
    /\ CallTree.node.k = "call"
    /\ CallTree.node.fn.k = "id"
    /\ CallTree.node.fn.name \in DOMAIN before.scope.functions

\* the function that line calls, and the values of the arguments of the call
CalledFunction == before.scope.functions[CallTree.node.fn.name]

CallArguments == EvalArguments(CallTree.node.args, LineContext, before.heap, MaxCallDepth)

\* the body of the called function, evaluated against the binding table of
\* the calling line with the parameters bound over it
BodyOutcome ==
    safeEvalAt(CalledFunction.body,
               BindParameters(CalledFunction.params, CallArguments.v) @@ LineContext,
               CallArguments.heap, MaxCallDepth - 1)

\* the top-level variables before the line evaluated last
VariablesBefore == getTopLevelVariables(before.heap, before.scope)

\* C5: a line that calls a user function yields what the body yields against
\* the calling line's binding table with the parameters bound to the
\* arguments and shadowing the outer names (so a variable assigned after the
\* definition is seen with its latest value), and the scope variable that has
\* a parameter's name keeps its value (ans and _ excepted, which the loop
\* sets to the line's value after a Value line).
C5_CallTimeNames ==
    /\ (CallsUserFunction /\ CallArguments.ok) =>
          /\ results[i] = IF BodyOutcome.ok
                          THEN [lineNumber |-> i, result |-> BodyOutcome.v, type |-> "value"]
                          ELSE [lineNumber |-> i, type |-> "error", error |-> BodyOutcome.error]
          /\ \A k \in 1..Len(CalledFunction.params) :
                LET param == CalledFunction.params[k]
                IN  (param \in DOMAIN VariablesBefore /\ param \notin {"ans", "_"}) =>
                        /\ param \in DOMAIN getTopLevelVariables(heap, scope)
                        /\ getTopLevelVariables(heap, scope)[param] = VariablesBefore[param]
    /\ (pc = "done" /\ content = "f(a) = a * x\nx = 5\nf(3)") =>
          results[3] = [lineNumber |-> 3, result |-> Num(15), type |-> "value"]
    /\ (pc = "done" /\ content = "a = 7\nd(a) = a + 1\nd(3)") =>
          /\ results[3] = [lineNumber |-> 3, result |-> Num(4), type |-> "value"]
          /\ getVariable(heap, scope, "a") = Num(7)

\* C5: a call whose parameter has the name of a scope variable has returned
C5_Witness ==
    /\ CallsUserFunction
    /\ results[i].type = "value"
    /\ \E k \in 1..Len(CalledFunction.params) :
          CalledFunction.params[k] \in DOMAIN VariablesBefore

\* C6: every function-definition line has the result FunctionDefined, in
\* every state after it was evaluated, and a line that calls a function whose
\* body fails yields Error with the failure's message.
C6_DefinitionNeverFails ==
    /\ \A k \in 1..Len(results) :
          parsedLines[k].type = "function-def" =>
              results[k] = [lineNumber |-> k, type |-> "function-def"]
    /\ (CallsUserFunction /\ CallArguments.ok /\ ~BodyOutcome.ok) =>
          results[i] = [lineNumber |-> i, type |-> "error", error |-> BodyOutcome.error]

\* C6: a function whose body cannot be compiled was defined and then called
C6_Witness ==
    /\ CallsUserFunction
    /\ ParseReturnOperand(CalledFunction.body).st = "syntax"
    /\ results[i].type = "error"
    /\ \E k \in 1..(i - 1) : results[k].type = "function-def"

\* the number of lines of a text: one more than its newline characters
LineCount(c) == 1 + Cardinality({k \in 1..Len(c) : Ch(c, k) = "\n"})

\* the k-th line of a text
LineAt(c, k) == Split(c, "\n")[k]

\* C11: while and after a document is evaluated there is one result per line
\* evaluated so far, the k-th result has lineNumber k and is the result of
\* the k-th line of the text (Text, Comment and FunctionDefined results stand
\* at the text, comment and function-definition lines and nowhere else), and
\* the returned sequence has as many results as the text has lines.
C11_OneResultPerLine ==
    /\ pc \in {"loop", "done"} =>
          /\ Len(results) = i
          /\ i <= LineCount(content)
          /\ \A k \in 1..Len(results) :
                /\ results[k].lineNumber = k
                /\ \A kind \in {"text", "comment", "function-def"} :
                      (results[k].type = kind) <=> (parseLine(LineAt(content, k)).type = kind)
    /\ pc = "done" => Len(results) = LineCount(content)

\* C11: a document of three lines of three kinds, one of them blank, has
\* been evaluated
C11_Witness ==
    /\ pc = "done"
    /\ Len(results) = 3
    /\ {results[k].type : k \in 1..3} = {"text", "comment", "value"}
    /\ \E k \in 1..3 : LineAt(content, k) = ""

\* a value as a caller sees it: a mapping by its own keys and their values,
\* down to depth levels
RECURSIVE Shown(_, _, _)
Shown(h, v, depth) ==
    IF v.t # "object" THEN v
    ELSE IF depth = 0 THEN [t |-> "object"]
    ELSE [t |-> "object",
          props |-> [key \in DOMAIN h[v.addr].props |->
                        Shown(h, h[v.addr].props[key], depth - 1)]]

\* result records as a caller sees them
ShownResults(rs, h) ==
    [k \in 1..Len(rs) |->
        IF "result" \in DOMAIN rs[k] THEN [rs[k] EXCEPT !.result = Shown(h, @, 2)] ELSE rs[k]]

\* the evaluation state st after the loop body returned out
Pushed(st, out) ==
    [results |-> Append(st.results, out.result), heap |-> out.heap, scope |-> out.scope,
     ans |-> out.ans]

\* the lines ps from the k-th on, evaluated from the state st
RECURSIVE RunLines(_, _, _)
RunLines(ps, k, st) ==
    IF k > Len(ps) THEN st
    ELSE RunLines(ps, k + 1,
                  Pushed(st, LoopBody(ps[k], st.heap, st.scope, k, st.ans, NoExternals)))

\* the document c evaluated by a process that evaluated nothing before
EvaluatedAlone(c) ==
    RunLines(parseDocument(c), 1,
             [results |-> <<>>, heap |-> createScope(HostHeap).heap,
              scope |-> createScope(HostHeap).scope, ans |-> Num(0)])

\* C13: every evaluation starts with no variable, no function and the last
\* answer 0, no name of an earlier document can be read through its scope,
\* and the results a document returns are those it returns when it is the
\* only document the process ever evaluates.
C13_Independence ==
    /\ (pc = "loop" /\ i = 0) =>
          /\ getTopLevelVariables(heap, scope) = <<>>
          /\ scope.functions = <<>>
          /\ ans = Num(0)
          /\ \A name \in SessionNames : getVariable(heap, scope, name) = Undefined
    /\ pc = "done" =>
          ShownResults(results, heap)
              = ShownResults(EvaluatedAlone(content).results, EvaluatedAlone(content).heap)

\* the names a syntax tree refers to
RECURSIVE FreeNames(_)
FreeNames(node) ==
    CASE node.k = "lit" -> {}
      [] node.k = "id" -> {node.name}
      [] node.k = "member" -> FreeNames(node.obj)
      [] node.k = "call" ->
            FreeNames(node.fn) \cup UNION {FreeNames(node.args[k]) : k \in DOMAIN node.args}
      [] node.k = "unary" -> FreeNames(node.arg)
      [] node.k = "binary" -> FreeNames(node.left) \cup FreeNames(node.right)
      [] node.k = "assign" -> FreeNames(node.target) \cup FreeNames(node.value)

\* the names the expression of the last call of safeEval refers to
NamesOfLastCall ==
    LET tree == ParseReturnOperand(lastCall.expression)
    IN  IF tree.st = "ok" THEN FreeNames(tree.node) ELSE {}

\* C14: a call of safeEval whose expression refers to a name that is not a
\* key of the binding table fails; it returns no value.
C14_ClosedBindings ==
    (lastCall.op = "safeEval" /\ NamesOfLastCall \ DOMAIN lastCall.context # {}) =>
        ~lastCall.outcome.ok

\* a line is about to be evaluated
LineStarts == pc = "loop" /\ i < Len(parsedLines)

\* the value v is the wrapper of the user function name
IsWrapperOf(v, name) == v.t = "function" /\ "user" \in DOMAIN v /\ v.user = name

\* C16: in the binding table of every line, ans and _ are the last answer;
\* any other name of a user function is that function's wrapper; any other
\* name of a scope variable is the variable's value; any other name of an
\* external variable is the external value; any other name of a builtin
\* aggregate is the aggregate; the remaining names are the math library's.
C16_Precedence ==
    LineStarts =>
        LET context == buildEvalContext(heap, scope, ans, externalVariables)
            variables == getTopLevelVariables(heap, scope)
        IN  \A name \in DOMAIN context :
                IF name \in {"ans", "_"} THEN context[name] = ans
                ELSE IF name \in DOMAIN scope.functions THEN IsWrapperOf(context[name], name)
                ELSE IF name \in DOMAIN variables THEN context[name] = variables[name]
                ELSE IF name \in DOMAIN externalVariables
                THEN context[name] = externalVariables[name]
                ELSE IF name \in builtinFunctions
                THEN context[name] = [t |-> "function", host |-> name]
                ELSE name \in mathjsFunctions /\ context[name] = MathjsValue(name)

\* the line evaluated last, as parseLine classified it
LastLine == parsedLines[i]

\* C17: a text or comment line leaves the variables, the functions and the
\* last answer as they were; a function-definition line for the name f
\* makes functions[f] the new parameters and body, whatever f was before,
\* and leaves every other function, every variable and the last answer as
\* they were.
C17_NonExpressionFrame ==
    /\ (LineEvaluated /\ LastLine.type \in {"text", "comment"}) =>
          /\ heap = before.heap
          /\ scope = before.scope
          /\ ans = before.ans
    /\ (LineEvaluated /\ LastLine.type = "function-def") =>
          /\ DOMAIN scope.functions = DOMAIN before.scope.functions \cup {LastLine.funcName}
          /\ scope.functions[LastLine.funcName]
                = [params |-> LastLine.funcParams, body |-> LastLine.funcBody]
          /\ \A g \in DOMAIN before.scope.functions \ {LastLine.funcName} :
                scope.functions[g] = before.scope.functions[g]
          /\ scope.variables = before.scope.variables
          /\ heap = before.heap
          /\ ans = before.ans

\* C18: after every line whose result is a Value or an Assignment the
\* scope has the top-level variables ans and _, and both, like the last
\* answer, are the value of that line.
C18_AnsInScope ==
    (LineEvaluated /\ results[i].type \in {"value", "assignment"}) =>
        LET variables == getTopLevelVariables(heap, scope)
        IN  /\ {"ans", "_"} \subseteq DOMAIN variables
            /\ variables["ans"] = results[i].result
            /\ variables["_"] = results[i].result
            /\ ans = results[i].result

\* the line evaluated last has an assignment target
HasTarget == LastLine.type = "expression" /\ "varName" \in DOMAIN LastLine

\* what safeEval returned for the expression of the line evaluated last
ExpressionOutcome == safeEval(LastLine.expression, LineContext, before.heap)

\* C19: after a line with an assignment target whose expression evaluated
\* to v the result is Assignment with the value v, and getVariable with the
\* target path returns v.
C19_AssignmentVisible ==
    (LineEvaluated /\ HasTarget /\ ExpressionOutcome.ok) =>
        /\ results[i] = [lineNumber |-> i, result |-> ExpressionOutcome.v, type |-> "assignment"]
        /\ getVariable(heap, scope, LastLine.varName) = ExpressionOutcome.v

\* the line evaluated last is an expression line, its expression returned a
\* value and, if it has a target, the value was stored
EvaluatedSuccessfully ==
    /\ LastLine.type = "expression"
    /\ ExpressionOutcome.ok
    /\ HasTarget =>
          ~setVariable(ExpressionOutcome.heap, before.scope, LastLine.varName,
                       ExpressionOutcome.v).threw

\* C20: a Text, Comment or FunctionDefined record has neither value nor
\* message, an Error record a message and no value, a Value or Assignment
\* record a value and no message; the record of a line is an Assignment
\* exactly when the line has a target and evaluated successfully, and a
\* Value exactly when it has none and evaluated successfully.
C20_ResultShape ==
    /\ \A k \in 1..Len(results) :
          DOMAIN results[k] =
              CASE results[k].type \in {"text", "comment", "function-def"} ->
                       {"lineNumber", "type"}
                [] results[k].type = "error" -> {"lineNumber", "type", "error"}
                [] results[k].type \in {"value", "assignment"} ->
                       {"lineNumber", "type", "result"}
    /\ LineEvaluated =>
          /\ (results[i].type = "assignment") <=> (HasTarget /\ EvaluatedSuccessfully)
          /\ (results[i].type = "value") <=> (~HasTarget /\ EvaluatedSuccessfully)

\* C20: a document gave an Error record after an Assignment record, the
\* Error for a line with a target
C20_Witness ==
    /\ LineEvaluated
    /\ HasTarget
    /\ results[i].type = "error"
    /\ \E k \in 1..(i - 1) : results[k].type = "assignment"

\* one step of evaluateDocument is the start of the call, which classifies
\* every line, or the evaluation of the line after the one evaluated last,
\* or the return after the last line
SinglePassStep ==
    \/ /\ pc = Idle
       /\ pc' = "loop"
       /\ parsedLines' = parseDocument(content')
       /\ i' = 0
       /\ results' = <<>>
    \/ /\ pc = "loop"
       /\ pc' = "loop"
       /\ i < Len(parsedLines)
       /\ i' = i + 1
       /\ parsedLines' = parsedLines
       /\ Len(results') = i'
       /\ SubSeq(results', 1, i) = results
       /\ results'[i'].lineNumber = i'
       /\ results'[i'] = evaluateLine(parsedLines[i'], heap, scope, i', ans,
                                      externalVariables).result
    \/ /\ pc = "loop"
       /\ pc' = "done"
       /\ i = Len(parsedLines)
       /\ Len(results) = Len(parsedLines)
       /\ UNCHANGED <<parsedLines, i, results, heap, scope, ans>>

\* the loop of evaluateDocument is not stuck: the condition of its next
\* iteration holds, or the condition under which it is left
LoopCanGoOn == pc = "loop" => (i < Len(parsedLines) \/ i = Len(parsedLines))

\* C21: evaluateDocument classifies every line once, at its start, then
\* evaluates the lines one by one in increasing line order, each once, the
\* results of the earlier lines staying where they are, and returns after
\* the last line: every step of the loop moves to the next line or returns,
\* and after every step the loop can take another step or has returned, so
\* a document of N lines returns after N iterations.
C21_SinglePass == [][SinglePassStep /\ LoopCanGoOn']_vars

\* C21: a document of three lines whose second line changed the scope the
\* first line was evaluated in has returned
C21_Witness ==
    /\ pc = "done"
    /\ content = "y = x * 3\nx = 2\ny = x * 3"
    /\ results[1].type = "error"
    /\ results[3].type = "assignment"

\* the lines ps without the k-th
LinesWithout(ps, k) == SubSeq(ps, 1, k - 1) \o SubSeq(ps, k + 1, Len(ps))

\* the lines ps evaluated as a document of their own
EvaluatedFresh(ps) ==
    RunLines(ps, 1,
             [results |-> <<>>, heap |-> createScope(HostHeap).heap,
              scope |-> createScope(HostHeap).scope, ans |-> Num(0)])

\* a result record as a caller sees it, without its line number
Unnumbered(r, h) ==
    [key \in DOMAIN r \ {"lineNumber"} |->
        IF key = "result" THEN Shown(h, r.result, 2) ELSE r[key]]

\* line k is an assignment or a function definition that succeeded
LineSucceeded(k) ==
    \/ parsedLines[k].type = "function-def" /\ results[k].type = "function-def"
    \/ /\ parsedLines[k].type = "expression"
       /\ "varName" \in DOMAIN parsedLines[k]
       /\ results[k].type = "assignment"

\* the name line k assigns or defines: the function name, or the first
\* segment of the target
NameOfLine(k) ==
    IF parsedLines[k].type = "function-def" THEN parsedLines[k].funcName
    ELSE Split(parsedLines[k].varName, ".")[1]

\* the names the expression of line m mentions
NamesOfLine(m) ==
    LET tree == ParseReturnOperand(parsedLines[m].expression)
    IN  IF tree.st = "ok" THEN FreeNames(tree.node) ELSE {}

\* line m mentions neither the name of line k nor anything that may stand
\* for it: the last answer, or a user function whose body may mention it
Unrelated(m, k) ==
    parsedLines[m].type = "expression" =>
        NamesOfLine(m) \cap ({NameOfLine(k), "ans", "_"} \cup DOMAIN scope.functions) = {}

\* C24: after an assignment or function-definition line that succeeded,
\* every later line that does not mention its name has the result it has in
\* the document without that line.
C24_UnrelatedLinesUnaffected ==
    (pc = "done" /\ externalVariables = NoExternals) =>
        \A k \in 1..Len(results) :
            LineSucceeded(k) =>
                LET without == EvaluatedFresh(LinesWithout(parsedLines, k))
                IN  \A m \in (k + 1)..Len(results) :
                        Unrelated(m, k) =>
                            Unnumbered(results[m], heap)
                                = Unnumbered(without.results[m - 1], without.heap)

\* C25: the evaluation of a line leaves the result records of the earlier
\* lines as they were: their kinds, their values as a caller sees them, the
\* contents of a mapping included, and their messages.
C25_ResultsFinal ==
    LineEvaluated =>
        \A k \in 1..(i - 1) :
            ShownResults(results, heap)[k] = ShownResults(results, before.heap)[k]

\* C26: after a line that assigned to the path a or a.b..., every other
\* top-level variable (other than ans and _) is still there and the value
\* read through it, the contents of a mapping included, is the value read
\* through it before the line.
C26_AssignmentFrame ==
    (LineEvaluated /\ HasTarget /\ results[i].type = "assignment") =>
        LET variables == getTopLevelVariables(heap, scope)
        IN  \A c \in DOMAIN VariablesBefore \ {NameOfLine(i), "ans", "_"} :
                /\ c \in DOMAIN variables
                /\ Shown(heap, variables[c], 2) = Shown(before.heap, VariablesBefore[c], 2)

(***************************************************************************)
(* Properties of parseLine                                                 *)
(***************************************************************************)

\* the k-th character of l is an = of one of ==, !=, <=, >= (or of ===)
InComparison(l, k) ==
    \/ k > 1 /\ Ch(l, k - 1) \in {"=", "!", "<", ">"}
    \/ k < Len(l) /\ Ch(l, k + 1) = "="

\* l holds an =, and every = of l is part of a comparison operator
ComparisonOnly(l) ==
    /\ \E k \in 1..Len(l) : Ch(l, k) = "="
    /\ \A k \in 1..Len(l) : Ch(l, k) = "=" => InComparison(l, k)

IsCommentText(l) == StartsWith(Trim(l), "#") \/ StartsWith(Trim(l), "//")

\* C7: a line, other than a comment, in which every = is part of a
\* comparison operator is classified as an expression without assignment
\* target, never as a function definition.
C7_ComparisonIsExpression ==
    (pc = "parsed" /\ ComparisonOnly(line) /\ ~IsCommentText(line)) =>
        /\ parsed.type = "expression"
        /\ "varName" \notin DOMAIN parsed

\* s is an identifier: a letter or _ followed by letters, digits and _
IsIdentifier(s) ==
    /\ Len(s) > 0
    /\ IsIdentStart(Ch(s, 1))
    /\ \A k \in 1..Len(s) : IsIdentChar(Ch(s, k))

\* C23: the assignment target of a record is one or more identifiers joined
\* by single dots, the function name of a function-def record is an
\* identifier and every element of its parameter list is an identifier.
C23_WellFormedNames ==
    pc = "parsed" =>
        /\ "varName" \in DOMAIN parsed =>
               LET segments == Split(parsed.varName, ".")
               IN  \A k \in 1..Len(segments) : IsIdentifier(segments[k])
        /\ parsed.type = "function-def" =>
               /\ IsIdentifier(parsed.funcName)
               /\ \A k \in 1..Len(parsed.funcParams) : IsIdentifier(parsed.funcParams[k])

FunctionFields == {"funcName", "funcParams", "funcBody"}

\* C10: parseLine returns one of the four kinds with the raw text as it was
\* given; varName is present only on an expression record; funcName,
\* funcParams and funcBody are present on function-def records and on no
\* other; an expression record carries its expression.
C10_ParseLineTotal ==
    pc = "parsed" =>
        /\ parsed.type \in {"expression", "comment", "text", "function-def"}
        /\ parsed.raw = line
        /\ "varName" \in DOMAIN parsed => parsed.type = "expression"
        /\ IF parsed.type = "function-def"
           THEN DOMAIN parsed = {"type", "raw"} \cup FunctionFields
           ELSE DOMAIN parsed \cap FunctionFields = {}
        /\ parsed.type = "expression" => "expression" \in DOMAIN parsed
        /\ parsed.type \in {"comment", "text"} => DOMAIN parsed = {"type", "raw"}

\* C10: a line between blanks was classified as a function definition
C10_Witness ==
    /\ pc = "parsed"
    /\ parsed.type = "function-def"
    /\ line # Trim(line)

(***************************************************************************)
(* Properties of setVariable and getVariable                               *)
(***************************************************************************)

\* C8: getVariable(scope, p) returns v right after setVariable(scope, p, v)
\* returned.
C8_RoundTrip ==
    (lastCall.op = "setVariable" /\ ~lastCall.threw) =>
        getVariable(heap, scope, lastCall.path) = lastCall.value

\* along the path parts from the object at address current on: every key
\* other than the segment is as it was in the heap hb, a segment that held a
\* mapping holds the same mapping, and a segment that held none holds a new one
RECURSIVE SegmentsKept(_, _, _, _)
SegmentsKept(hb, ha, current, parts) ==
    /\ \A key \in DOMAIN hb[current].props \ {parts[1]} :
          /\ key \in DOMAIN ha[current].props
          /\ ha[current].props[key] = hb[current].props[key]
    /\ Len(parts) > 1 =>
          LET was == GetProp(hb, current, parts[1])
              now == GetProp(ha, current, parts[1])
          IN  IF IsNotMapping(was)
              THEN now.t = "object" /\ now.addr > Len(hb)
              ELSE now = was /\ SegmentsKept(hb, ha, was.addr, Tail(parts))

\* C9: setVariable with a path of several segments does not throw, keeps
\* every intermediate mapping and its other keys, replaces a missing or
\* non-mapping intermediate by a new mapping, and changes no top-level
\* variable other than the first segment.
C9_DotPathNeverFails ==
    (lastCall.op = "setVariable" /\ Len(Split(lastCall.path, ".")) > 1) =>
        /\ ~lastCall.threw
        /\ SegmentsKept(lastCall.heap, heap, scope.variables, Split(lastCall.path, "."))

(***************************************************************************)
(* Properties of the builtin aggregates                                    *)
(***************************************************************************)

\* a finite number
IsFinite(v) == IsFrac(v) /\ v.v[2] # 0

\* the sum and the number of the finite numbers found in the value v and,
\* when v is a mapping, in the values of its keys, down to depth levels
RECURSIVE LeafTotal(_, _, _), LeafTotalOf(_, _, _, _)
LeafTotal(h, v, depth) ==
    IF IsFinite(v) THEN [sum |-> v, count |-> 1]
    ELSE IF v.t = "object" /\ depth > 0
    THEN LeafTotalOf(h, v.addr, DOMAIN h[v.addr].props, depth - 1)
    ELSE [sum |-> Num(0), count |-> 0]

LeafTotalOf(h, a, keys, depth) ==
    IF keys = {} THEN [sum |-> Num(0), count |-> 0]
    ELSE LET key == CHOOSE k \in keys : TRUE
             mine == LeafTotal(h, h[a].props[key], depth)
             rest == LeafTotalOf(h, a, keys \ {key}, depth)
         IN  [sum |-> NumAdd(mine.sum, rest.sum), count |-> mine.count + rest.count]

\* the same for the list of arguments of the last call, as one mapping
ArgumentTotal ==
    LET args == lastCall.args
        each == [k \in 1..Len(args) |-> LeafTotal(heap, args[k], Len(heap))]
        Sum[k \in 0..Len(args)] == IF k = 0 THEN Num(0) ELSE NumAdd(Sum[k - 1], each[k].sum)
        Count[k \in 0..Len(args)] == IF k = 0 THEN 0 ELSE Count[k - 1] + each[k].count
    IN  [sum |-> Sum[Len(args)], count |-> Count[Len(args)]]

\* C12: every call of sum returns the sum of the numeric leaves of its
\* arguments and every call of avg that sum divided by their number; with no
\* numeric leaf sum and avg return 0, min returns +Infinity and max returns
\* -Infinity; sum(1, 2, 3) = 6, sum({perNight: 180, nights: 4}) = 184 and
\* sum(1, {a: 2, b: {c: 3}}) = 6.
C12_Aggregates ==
    /\ lastCall.op = "sum" => lastCall.outcome = Ok(ArgumentTotal.sum)
    /\ lastCall.op = "avg" =>
          lastCall.outcome = Ok(IF ArgumentTotal.count = 0 THEN Num(0)
                                ELSE NumDiv(ArgumentTotal.sum, Num(ArgumentTotal.count)))
    /\ (lastCall.op = "min" /\ ArgumentTotal.count = 0) => lastCall.outcome = Ok(Infinity)
    /\ (lastCall.op = "max" /\ ArgumentTotal.count = 0) =>
          lastCall.outcome = Ok(NumNeg(Infinity))
    /\ (lastCall.op = "sum" /\ lastCall.args = <<Num(1), Num(2), Num(3)>>) =>
          lastCall.outcome = Ok(Num(6))
    /\ (lastCall.op = "sum" /\ lastCall.args = <<getVariable(heap, scope, "hotel")>>) =>
          lastCall.outcome = Ok(Num(184))
    /\ (lastCall.op = "sum" /\ lastCall.args = <<Num(1), getVariable(heap, scope, "t")>>) =>
          lastCall.outcome = Ok(Num(6))

\* the value v holds no finite number: it is a string, a boolean, null, NaN,
\* an infinity, or a mapping all of whose values, down to depth levels, are
\* such values
RECURSIVE HoldsNoFiniteNumber(_, _, _)
HoldsNoFiniteNumber(h, v, depth) ==
    IF v.t = "object"
    THEN /\ depth > 0
         /\ \A key \in DOMAIN h[v.addr].props :
                HoldsNoFiniteNumber(h, h[v.addr].props[key], depth - 1)
    ELSE ~IsFinite(v)

\* the list args without its k-th element
Without(args, k) == SubSeq(args, 1, k - 1) \o SubSeq(args, k + 1, Len(args))

\* C22: an argument that holds no finite number (a string, a boolean, null,
\* NaN, +Infinity, -Infinity, or a mapping of such values) contributes
\* nothing: every call of sum, avg, min or max returns what the call without
\* that argument returns.
C22_OnlyFiniteNumbers ==
    lastCall.op \in builtinFunctions =>
        \A k \in 1..Len(lastCall.args) :
            HoldsNoFiniteNumber(heap, lastCall.args[k], Len(heap)) =>
                lastCall.outcome = HostCall(lastCall.op, Without(lastCall.args, k), heap)

(***************************************************************************)
(* Properties of the notes backend                                         *)
(***************************************************************************)

\* the note documents the last sync request would leave if it were carried
\* out on the documents it found: the stored notes, the notes it brings that
\* are not stored yet, less the notes it deletes
NotesAfterSync ==
    LET found == lastCall.found.notes
        named == Range(lastCall.notes) \ {NoId}
        unnamed == Len(SelectSeq(lastCall.notes, LAMBDA id : id = NoId))
    IN  Cardinality((found \cup named) \ Range(lastCall.deletedIds)) + unnamed

\* C15: the user's tier being free throughout, at most 5 note documents are
\* stored after every sequence of transactions; createNote on 5 or more
\* stored notes fails with LIMIT_EXCEEDED and stores nothing, and so does a
\* bulkSyncNotes that would leave more than 5 notes.
C15_FreeTierLimit ==
    /\ Cardinality(firestore.notes) <= NoteLimit
    /\ (lastCall.op = "createNote" /\ Cardinality(lastCall.found.notes) >= NoteLimit) =>
          ~lastCall.ok /\ firestore = lastCall.found
    /\ (lastCall.op = "bulkSyncNotes" /\ NotesAfterSync > NoteLimit) =>
          ~lastCall.ok /\ firestore = lastCall.found

\* C27: after every sequence of createNote, deleteNote and bulkSyncNotes
\* transactions the noteCount of the profile is the number of note documents
\* stored, and it is not negative.
C27_NoteCountConsistent ==
    /\ ReadProfile(firestore).noteCount = Cardinality(firestore.notes)
    /\ ReadProfile(firestore).noteCount >= 0
(***************************************************************************)
(* Properties of useSync                                                   *)
(***************************************************************************)

\* what a queue holds: its changes and its deletions
QueueItems(q) == SyncRequest(q, {})

\* C28: when a call of performSync has ended successfully, every change and
\* every deletion that was queued while the call was under way is still in
\* the queue or was part of the request the call sent.
C28_NoQueuedChangeDropped ==
    (lastCall.op = "performSync" /\ lastCall.ok) =>
        \A item \in lastCall.during :
            item \in QueueItems(hook.queue) \/ item \in lastCall.request

\* C29: at most one call of performSync is between its listNotes request
\* and its end, and no call that was started while another was there has
\* issued a request.
C29_SingleSyncInFlight ==
    /\ Cardinality(InFlight(hook)) <= 1
    /\ \A k \in InFlight(hook) : ~hook.calls[k].overlaps

(***************************************************************************)
(* Properties of the tab storage                                           *)
(***************************************************************************)

\* the tab list is not empty and activeTabId names one of its tabs
ValidData(data) ==
    /\ Len(data.tabs) >= 1
    /\ \E k \in DOMAIN data.tabs : data.tabs[k].id = data.activeTabId

\* the ids of the tabs, in their order
TabIdsOf(tabs) == [k \in DOMAIN tabs |-> tabs[k].id]

\* the tabs without the k-th
WithoutTab(tabs, k) == [m \in 1..(Len(tabs) - 1) |-> IF m < k THEN tabs[m] ELSE tabs[m + 1]]

\* what a call of deleteTab has to do with the data loaded before it
DeleteTabStep ==
    LET data == loadData(localStorage)
        k == findIndex(data.tabs, lastCall'.tabId)
        neighbour == IF k > 1 THEN data.tabs[k - 1].id ELSE data.tabs[2].id
    IN  /\ ~lastCall'.threw
        /\ Len(data.tabs) = 1 =>
               lastCall'.result = Null /\ localStorage' = localStorage
        /\ k = 0 => localStorage' = localStorage
        /\ (k = 0 /\ Len(data.tabs) > 1) => lastCall'.result = data
        /\ (k > 0 /\ Len(data.tabs) > 1) =>
               /\ lastCall'.result.tabs = WithoutTab(data.tabs, k)
               /\ lastCall'.result.activeTabId =
                      IF data.activeTabId = lastCall'.tabId THEN neighbour
                      ELSE data.activeTabId
               /\ localStorage' = IF lastCall'.written THEN lastCall'.result ELSE localStorage

\* what every call has to keep
StorageStep ==
    /\ ValidData(loadData(localStorage'))
    /\ ValidData(localStorage) => ValidData(localStorage')
    /\ localStorage' # localStorage => ValidData(localStorage')
    /\ TabIdsOf(localStorage'.tabs) # TabIdsOf(localStorage.tabs) => lastCall'.op = "deleteTab"
    /\ lastCall'.op = "deleteTab" => DeleteTabStep

\* C30: after every call of deleteTab, setActiveTab, renameTab and
\* updateTabContent the stored tab list is not empty and activeTabId names a
\* stored tab, when that was so before the call, and whatever a call stores
\* is so; deleteTab on the only tab returns null and changes nothing,
\* deleteTab of an unknown id changes nothing, and deleteTab of the active
\* tab makes the tab to its left, or the new first tab when it was the
\* first, the active one
C30_TabStorage == [][StorageStep]_vars

\* C30: the active tab t2, between t1 and t3, was deleted and t1 is the
\* active tab now
C30_Witness ==
    /\ pc = "storage"
    /\ lastCall.op = "deleteTab"
    /\ lastCall.tabId = "t2"
    /\ TabIdsOf(localStorage.tabs) = <<"t1", "t3">>
    /\ localStorage.activeTabId = "t1"
    /\ lastCall.result.activeTabId = "t1"
    /\ localStorage.tabs[2].name = "renamed"

====
